---------------------------- MODULE Spec2Model ----------------------------
(***************************************************************************)
(* whitebase: the bytecode codec (src/src/bytecode.rs) and the virtual     *)
(* machine (src/src/machine.rs).                                           *)
(*                                                                         *)
(* A program is handed to the writer as a sequence of IR instructions      *)
(* (insts), assembled into a byte stream (program) and read back by        *)
(* read_inst at a byte offset (pos).  The machine owns stack and heap; a   *)
(* run owns the label index and the call stack.                            *)
(***************************************************************************)
EXTENDS Integers, Sequences, FiniteSets, TLC

VARIABLES
    insts,      \* the IR sequence given to ByteCodeWriter::assemble
    program,    \* the bytes of the MemReader the program is read from
    pos,        \* the reader's byte offset (program.tell())
    stack,      \* Machine.stack
    heap,       \* Machine.heap (TreeMap<i64, i64>), a function on the keys present
    index,      \* run's label index (HashMap<i64, u64>)
    caller,     \* run's call stack (Vec<u64>)
    stdin,      \* the characters not yet read from Machine.stdin
    stdout,     \* the bytes written to Machine.stdout
    status,     \* "running", "halted", a MachineError, or "panic"
    last,       \* the record the last step dispatched: <<offset, opcode, operand>>
    out,        \* the IR instructions yielded so far by disassemble()
    runs,       \* the number of calls of Machine::run on this Machine so far
    lang,       \* the syntax a text is compiled from and decompiled to
    chain       \* what compile and decompile have been given and have returned so far

vars == <<insts, program, pos, stack, heap, index, caller, stdin, stdout, status, last, out,
          runs, lang, chain>>

-----------------------------------------------------------------------------
(* Bounds of the model *)

\* straight-line programs push at most this many values before their operation
MaxPush == 3
\* flow programs are all sequences of at most this many flow instructions
MaxFlowLen == 3
\* codec programs are all sequences of at most this many instructions
MaxCodecLen == 2
\* the call stack is cut off at this depth (unbounded recursion of the program)
MaxCalls == 3
\* a damaged stream lacks at most this many bytes at its end
MaxCut == 2

\* one Machine is run at most this many times
MaxRuns == 2
\* source texts and decompiled streams hold at most this many flow instructions
MaxSrcLen == 3
\* compile and decompile are applied in turn at most this many times, less one
MaxChain == 4
\* a token sequence given to the Whitespace parser holds at most this many tokens
MaxTokLen == 6
\* a text given to the DT scanner is made of at most this many pieces
MaxPieces == 3
\* a Brainfuck text holds at most this many characters
MaxBfLen == 3
\* a Brainfuck text of brackets alone holds at most this many of them
MaxBrackets == 6
\* every number of '+' up to this one stands before a '.'
MaxPlus == 8
\* cells and the pointer of the runs followed stay within this distance of 0
MaxCell == 127

\* the stack is cut off at this height (unbounded pushing loops of the program)
MaxStack == MaxPush + 2

\* operands pushed by straight-line programs: both signs, with |7| not a multiple of |2|
Values == {-7, -2, 0, 2, 7}
\* label ids used by flow programs
Labels == {1, 2}
\* operands written by codec programs: both signs, zero, one to four significant bytes
CodecOperands == {-2147483647, -1, 0, 258}
\* contents of stdin: empty, one character, lines with and without LF, a non-number
Inputs == { <<>>, <<87, 49, 50, 51, 10>>, <<45, 55, 10>>, <<55>>, <<120, 10>> }

-----------------------------------------------------------------------------
(* bytecode.rs: opcodes *)

IMP_STACK      == 3 * 16
IMP_ARITHMETIC == 8 * 16
IMP_HEAP       == 10 * 16
IMP_FLOW       == 7 * 16
IMP_IO         == 9 * 16

CMD_PUSH     == IMP_STACK + 3
CMD_DUP      == IMP_STACK + 4
CMD_COPY     == IMP_STACK + 8
CMD_SWAP     == IMP_STACK + 6
CMD_DISCARD  == IMP_STACK + 5
CMD_SLIDE    == IMP_STACK + 9
CMD_ADD      == IMP_ARITHMETIC + 0
CMD_SUB      == IMP_ARITHMETIC + 2
CMD_MUL      == IMP_ARITHMETIC + 1
CMD_DIV      == IMP_ARITHMETIC + 8
CMD_MOD      == IMP_ARITHMETIC + 10
CMD_STORE    == IMP_HEAP + 3
CMD_RETRIEVE == IMP_HEAP + 11
CMD_MARK     == IMP_FLOW + 0
CMD_CALL     == IMP_FLOW + 2
CMD_JUMP     == IMP_FLOW + 1
CMD_JUMPZ    == IMP_FLOW + 8
CMD_JUMPN    == IMP_FLOW + 10
CMD_RETURN   == IMP_FLOW + 9
CMD_EXIT     == IMP_FLOW + 5
CMD_PUTC     == IMP_IO + 0
CMD_PUTN     == IMP_IO + 2
CMD_GETC     == IMP_IO + 8
CMD_GETN     == IMP_IO + 10

\* the opcodes matched by Machine::step and Instructions::next
Opcodes ==
    { CMD_PUSH, CMD_DUP, CMD_COPY, CMD_SWAP, CMD_DISCARD, CMD_SLIDE,
      CMD_ADD, CMD_SUB, CMD_MUL, CMD_DIV, CMD_MOD, CMD_STORE, CMD_RETRIEVE,
      CMD_MARK, CMD_CALL, CMD_JUMP, CMD_JUMPZ, CMD_JUMPN, CMD_RETURN, CMD_EXIT,
      CMD_PUTC, CMD_PUTN, CMD_GETC, CMD_GETN }

-----------------------------------------------------------------------------
(* ir.rs: instructions.  An instruction is <<kind>> or <<kind, n>>. *)

OperandKinds ==
    { "StackPush", "StackCopy", "StackSlide", "Mark", "Call", "Jump",
      "JumpIfZero", "JumpIfNegative" }

PlainKinds ==
    { "StackDuplicate", "StackSwap", "StackDiscard", "Addition", "Subtraction",
      "Multiplication", "Division", "Modulo", "HeapStore", "HeapRetrieve",
      "Return", "Exit", "PutCharactor", "PutNumber", "GetCharactor", "GetNumber" }

-----------------------------------------------------------------------------
(* bytecode.rs: the writer *)

\* 256^e for the four low bytes
Pow256(e) == CASE e = 0 -> 1 [] e = 1 -> 256 [] e = 2 -> 65536 [] OTHER -> 16777216

\* byte i (1 = most significant) of the 8-byte big-endian form of m, 0 <= m < 2^31
MagByte(m, i) == IF i <= 4 THEN 0 ELSE (m \div Pow256(8 - i)) % 256

\* Writer::write_be_i64: eight bytes, big-endian two's complement
write_be_i64(n) ==
    IF n >= 0 THEN [i \in 1..8 |-> MagByte(n, i)]
    ELSE [i \in 1..8 |-> 255 - MagByte(-(n + 1), i)]

write_u8(b) == <<b>>

write_push(n)  == write_u8(CMD_PUSH) \o write_be_i64(n)
write_dup      == write_u8(CMD_DUP)
write_copy(n)  == write_u8(CMD_COPY) \o write_be_i64(n)
write_swap     == write_u8(CMD_SWAP)
write_discard  == write_u8(CMD_DISCARD)
write_slide(n) == write_u8(CMD_SLIDE) \o write_be_i64(n)
write_add      == write_u8(CMD_ADD)
write_sub      == write_u8(CMD_SUB)
write_mul      == write_u8(CMD_MUL)
write_div      == write_u8(CMD_DIV)
write_mod      == write_u8(CMD_MOD)
write_store    == write_u8(CMD_STORE)
write_retrieve == write_u8(CMD_RETRIEVE)
write_mark(n)  == write_u8(CMD_MARK) \o write_be_i64(n)
write_call(n)  == write_u8(CMD_CALL) \o write_be_i64(n)
write_jump(n)  == write_u8(CMD_JUMP) \o write_be_i64(n)
write_jumpz(n) == write_u8(CMD_JUMPZ) \o write_be_i64(n)
\* write_jumpn, but the operand is not written
write_jumpn_bare(n) == write_u8(CMD_JUMPN)
write_jumpn(n) == write_u8(CMD_JUMPN) \o write_be_i64(n)
write_return   == write_u8(CMD_RETURN)
write_exit     == write_u8(CMD_EXIT)
write_putn     == write_u8(CMD_PUTN)
write_putc     == write_u8(CMD_PUTC)
write_getc     == write_u8(CMD_GETC)
write_getn     == write_u8(CMD_GETN)

\* the match of ByteCodeWriter::assemble on one instruction
write_inst(i) ==
    CASE i[1] = "StackPush"      -> write_push(i[2])
      [] i[1] = "StackDuplicate" -> write_dup
      [] i[1] = "StackCopy"      -> write_copy(i[2])
      [] i[1] = "StackSwap"      -> write_swap
      [] i[1] = "StackDiscard"   -> write_discard
      [] i[1] = "StackSlide"     -> write_slide(i[2])
      [] i[1] = "Addition"       -> write_add
      [] i[1] = "Subtraction"    -> write_sub
      [] i[1] = "Multiplication" -> write_mul
      [] i[1] = "Division"       -> write_div
      [] i[1] = "Modulo"         -> write_mod
      [] i[1] = "HeapStore"      -> write_store
      [] i[1] = "HeapRetrieve"   -> write_retrieve
      [] i[1] = "Mark"           -> write_mark(i[2])
      [] i[1] = "Call"           -> write_call(i[2])
      [] i[1] = "Jump"           -> write_jump(i[2])
      [] i[1] = "JumpIfZero"     -> write_jumpz(i[2])
      [] i[1] = "JumpIfNegative" -> write_jumpn(i[2])
      [] i[1] = "Return"         -> write_return
      [] i[1] = "Exit"           -> write_exit
      [] i[1] = "PutCharactor"   -> write_putc
      [] i[1] = "PutNumber"      -> write_putn
      [] i[1] = "GetCharactor"   -> write_getc
      [] i[1] = "GetNumber"      -> write_getn

RECURSIVE assemble(_)
\* ByteCodeWriter::assemble: the wire forms of the instructions, in order
\* (the list is written half by half, which keeps the evaluation shallow,
\* and the list is bound as the one element of a set, so that it is evaluated once)
assemble(is) ==
    CHOOSE res \in
      { IF Len(v) = 0 THEN <<>>
        ELSE IF Len(v) = 1 THEN write_inst(v[1])
        ELSE assemble(SubSeq(v, 1, Len(v) \div 2)) \o
             assemble(SubSeq(v, Len(v) \div 2 + 1, Len(v))) :
        v \in { is } } : TRUE

-----------------------------------------------------------------------------
(* bytecode.rs: the reader *)

\* ReadsOperand, but JumpIfNegative is taken for an opcode without operand
ReadsOperandButJumpN(n) ==
    \/ n = CMD_PUSH \/ n = CMD_COPY \/ n = CMD_SLIDE \/ n = CMD_MARK
    \/ n = CMD_CALL \/ n = CMD_JUMP \/ n = CMD_JUMPZ

\* the opcodes after which read_inst reads an operand
ReadsOperand(n) ==
    \/ n = CMD_PUSH \/ n = CMD_COPY \/ n = CMD_SLIDE \/ n = CMD_MARK
    \/ n = CMD_CALL \/ n = CMD_JUMP \/ n = CMD_JUMPZ \/ n = CMD_JUMPN

RECURSIVE be_uint(_, _)
\* Reader::read_be_uint_n: the value of the first k bytes of bs, most significant first
be_uint(bs, k) ==
    IF k = 0 THEN 0 ELSE be_uint(bs, k - 1) * 256 + bs[k]

\* Reader::read_be_i64: the eight bytes as a two's complement number
read_be_i64(bs) ==
    IF bs[1] < 128 THEN be_uint(bs, 8)
    ELSE -(be_uint([i \in 1..8 |-> 255 - bs[i]], 8)) - 1

\* ByteCodeReader::read_inst on the bytes bytes at offset p:
\* Ok((opcode, operand)) and the offset after the record, or Err(EndOfFile)
read_inst(bytes, p) ==
    IF p >= Len(bytes)
    THEN [err |-> "EndOfFile", op |-> 0, arg |-> 0, pos |-> p]
    ELSE LET n == bytes[p + 1] IN
         IF ReadsOperand(n)
         THEN IF p + 9 > Len(bytes)
              THEN [err |-> "EndOfFile", op |-> n, arg |-> 0, pos |-> Len(bytes)]
              ELSE [err |-> "ok", op |-> n,
                    arg |-> read_be_i64(SubSeq(bytes, p + 2, p + 9)), pos |-> p + 9]
         ELSE [err |-> "ok", op |-> n, arg |-> 0, pos |-> p + 1]

\* the match of Instructions::next on what read_inst returned
to_ir(op, n) ==
    CASE op = CMD_PUSH     -> <<"StackPush", n>>
      [] op = CMD_DUP      -> <<"StackDuplicate">>
      [] op = CMD_COPY     -> <<"StackCopy", n>>
      [] op = CMD_SWAP     -> <<"StackSwap">>
      [] op = CMD_DISCARD  -> <<"StackDiscard">>
      [] op = CMD_SLIDE    -> <<"StackSlide", n>>
      [] op = CMD_ADD      -> <<"Addition">>
      [] op = CMD_SUB      -> <<"Subtraction">>
      [] op = CMD_MUL      -> <<"Multiplication">>
      [] op = CMD_DIV      -> <<"Division">>
      [] op = CMD_MOD      -> <<"Modulo">>
      [] op = CMD_STORE    -> <<"HeapStore">>
      [] op = CMD_RETRIEVE -> <<"HeapRetrieve">>
      [] op = CMD_MARK     -> <<"Mark", n>>
      [] op = CMD_CALL     -> <<"Call", n>>
      [] op = CMD_JUMP     -> <<"Jump", n>>
      [] op = CMD_JUMPZ    -> <<"JumpIfZero", n>>
      [] op = CMD_JUMPN    -> <<"JumpIfNegative", n>>
      [] op = CMD_RETURN   -> <<"Return">>
      [] op = CMD_EXIT     -> <<"Exit">>
      [] op = CMD_PUTC     -> <<"PutCharactor">>
      [] op = CMD_PUTN     -> <<"PutNumber">>
      [] op = CMD_GETC     -> <<"GetCharactor">>
      [] op = CMD_GETN     -> <<"GetNumber">>

-----------------------------------------------------------------------------
(* machine.rs: the operations of Machine.  Each returns the Result it       *)
(* produces (err: "ok", a MachineError, or "panic" for a failed unwrap) and *)
(* the fields it leaves behind.                                             *)

Pop(s) == SubSeq(s, 1, Len(s) - 1)
Top(s) == s[Len(s)]

\* Machine::push
push(s, n) == [err |-> "ok", stack |-> Append(s, n)]

\* copy, but tmp is filled with push instead of unshift: the values come back reversed
copy_tmp_reversed(s, n) ==
    IF Len(s) <= n
    THEN [err |-> "IllegalStackManipulation", stack |-> s]
    ELSE LET tmp  == [i \in 1..n |-> s[Len(s) - i + 1]]
             rest == SubSeq(s, 1, Len(s) - n)
             val  == Top(rest)
         IN  [err |-> "ok", stack |-> Append(Append(Pop(rest), val) \o tmp, val)]

\* Machine::copy: n values are popped into tmp, the next one is read and all are pushed back
copy(s, n) ==
    IF Len(s) <= n
    THEN [err |-> "IllegalStackManipulation", stack |-> s]
    ELSE LET tmp  == SubSeq(s, Len(s) - n + 1, Len(s))
             rest == SubSeq(s, 1, Len(s) - n)
             val  == Top(rest)
         IN  [err |-> "ok", stack |-> Append(Append(Pop(rest), val) \o tmp, val)]

\* Machine::swap
swap(s) ==
    IF Len(s) = 0 THEN [err |-> "IllegalStackManipulation", stack |-> s]
    ELSE LET x == Top(s)  s1 == Pop(s) IN
         IF Len(s1) = 0 THEN [err |-> "IllegalStackManipulation", stack |-> s1]
         ELSE LET y == Top(s1) IN
              [err |-> "ok", stack |-> Append(Append(Pop(s1), x), y)]

\* Machine::discard
discard(s) ==
    IF Len(s) = 0 THEN [err |-> "IllegalStackManipulation", stack |-> s]
    ELSE [err |-> "ok", stack |-> Pop(s)]

RECURSIVE PopN(_, _)
\* the loop of Machine::slide: n times stack.pop(), which does nothing on an empty Vec
PopN(s, n) == IF n = 0 THEN s ELSE PopN(IF Len(s) = 0 THEN s ELSE Pop(s), n - 1)

\* the guard of Machine::slide
slide_refuses(len, n) == len < n

\* Machine::slide: stack.pop().unwrap() fails on an empty stack
slide(s, n) ==
    IF slide_refuses(Len(s), n)
    THEN [err |-> "IllegalStackManipulation", stack |-> s]
    ELSE IF Len(s) = 0 THEN [err |-> "panic", stack |-> s]
    ELSE LET top == Top(s) IN
         [err |-> "ok", stack |-> Append(PopN(Pop(s), n), top)]

Abs(a) == IF a < 0 THEN -a ELSE a

\* i64_div, but the quotient is rounded toward minus infinity
i64_div_floor(y, x) ==
    IF (y < 0) = (x < 0) THEN Abs(y) \div Abs(x)
    ELSE -((Abs(y) + Abs(x) - 1) \div Abs(x))

\* i64 division y / x, x /= 0: the quotient is truncated toward zero
i64_div(y, x) ==
    IF (y < 0) = (x < 0) THEN Abs(y) \div Abs(x) ELSE -(Abs(y) \div Abs(x))

\* i64 remainder y % x, x /= 0: the remainder of the truncated division
i64_rem(y, x) ==
    IF y < 0 THEN -(Abs(y) % Abs(x)) ELSE Abs(y) % Abs(x)

\* the closures Machine::step passes to calc and dcalc
f_add(x, y) == y + x
f_sub(x, y) == y - x
f_mul(x, y) == y * x
f_div(x, y) == i64_div(y, x)
f_mod(x, y) == i64_rem(y, x)

\* a call of the closure f that Machine::step passed, on the popped x and y
call(f, x, y) ==
    CASE f = "add" -> f_add(x, y)
      [] f = "sub" -> f_sub(x, y)
      [] f = "mul" -> f_mul(x, y)
      [] f = "div" -> f_div(x, y)
      [] f = "mod" -> f_mod(x, y)

\* Machine::calc
calc(s, f) ==
    IF Len(s) = 0 THEN [err |-> "IllegalStackManipulation", stack |-> s]
    ELSE LET x == Top(s)  s1 == Pop(s) IN
         IF Len(s1) = 0 THEN [err |-> "IllegalStackManipulation", stack |-> s1]
         ELSE LET y == Top(s1) IN
              [err |-> "ok", stack |-> Append(Pop(s1), call(f, x, y))]

\* dcalc, but both operands are popped before the divisor is looked at
dcalc_pops_both(s, divf) ==
    IF Len(s) = 0 THEN [err |-> "IllegalStackManipulation", stack |-> s]
    ELSE LET x == Top(s)  s1 == Pop(s) IN
         IF Len(s1) = 0 THEN [err |-> "IllegalStackManipulation", stack |-> s1]
         ELSE LET y == Top(s1) IN
              IF x = 0 THEN [err |-> "ZeroDivision", stack |-> Pop(s1)]
              ELSE [err |-> "ok", stack |-> Append(Pop(s1), call(divf, x, y))]

\* dcalc, but a zero divisor is left on the stack
dcalc_keeps_divisor(s, divf) ==
    IF Len(s) = 0 THEN [err |-> "IllegalStackManipulation", stack |-> s]
    ELSE LET x == Top(s)  s1 == Pop(s) IN
         IF x = 0 THEN [err |-> "ZeroDivision", stack |-> s]
         ELSE IF Len(s1) = 0 THEN [err |-> "IllegalStackManipulation", stack |-> s1]
         ELSE LET y == Top(s1) IN
              [err |-> "ok", stack |-> Append(Pop(s1), call(divf, x, y))]

\* Machine::dcalc
dcalc(s, divf) ==
    IF Len(s) = 0 THEN [err |-> "IllegalStackManipulation", stack |-> s]
    ELSE LET x == Top(s)  s1 == Pop(s) IN
         IF x = 0 THEN [err |-> "ZeroDivision", stack |-> s1]
         ELSE IF Len(s1) = 0 THEN [err |-> "IllegalStackManipulation", stack |-> s1]
         ELSE LET y == Top(s1) IN
              [err |-> "ok", stack |-> Append(Pop(s1), call(divf, x, y))]

\* insert, but a key that is present keeps its value
insert_if_absent(h, k, v) ==
    [a \in (DOMAIN h) \cup {k} |-> IF a \in DOMAIN h THEN h[a] ELSE v]

\* TreeMap::insert and TreeMap::find
insert(h, k, v) == [a \in (DOMAIN h) \cup {k} |-> IF a = k THEN v ELSE h[a]]
EmptyMap == [a \in {} |-> 0]

\* store, but with a single value on the stack nothing is stored and Ok returned
store_tolerates_one(s, h) ==
    IF Len(s) = 0 THEN [err |-> "IllegalStackManipulation", stack |-> s, heap |-> h]
    ELSE LET val == Top(s)  s1 == Pop(s) IN
         IF Len(s1) = 0
         THEN [err |-> "ok", stack |-> s1, heap |-> h]
         ELSE LET addr == Top(s1) IN
              [err |-> "ok", stack |-> Pop(s1), heap |-> insert(h, addr, val)]

\* Machine::store
store(s, h) ==
    IF Len(s) = 0 THEN [err |-> "IllegalStackManipulation", stack |-> s, heap |-> h]
    ELSE LET val == Top(s)  s1 == Pop(s) IN
         IF Len(s1) = 0
         THEN [err |-> "IllegalStackManipulation", stack |-> s1, heap |-> h]
         ELSE LET addr == Top(s1) IN
              [err |-> "ok", stack |-> Pop(s1), heap |-> insert(h, addr, val)]

\* Machine::retrieve
retrieve(s, h) ==
    IF Len(s) = 0 THEN [err |-> "IllegalStackManipulation", stack |-> s]
    ELSE LET addr == Top(s) IN
         [err |-> "ok",
          stack |-> Append(Pop(s), IF addr \in DOMAIN h THEN h[addr] ELSE 0)]

RECURSIVE scan_forgets_passed_marks(_, _, _, _)
\* scan, but only the Mark it was looking for is inserted into the index
scan_forgets_passed_marks(bytes, p, idx, label) ==
    LET r == read_inst(bytes, p) IN
    IF r.err = "EndOfFile"
    THEN [err |-> "UndefinedLabel", pos |-> r.pos, index |-> idx]
    ELSE IF r.op = CMD_MARK /\ r.arg = label
         THEN [err |-> "ok", pos |-> r.pos, index |-> insert(idx, r.arg, r.pos)]
         ELSE scan_forgets_passed_marks(bytes, r.pos, idx, label)

RECURSIVE scan_stores_start(_, _, _, _)
\* scan, but the offset inserted for a Mark is that of the record itself
scan_stores_start(bytes, p, idx, label) ==
    CHOOSE res \in
      { IF b.r.err = "EndOfFile"
        THEN [err |-> "UndefinedLabel", pos |-> b.r.pos, index |-> b.idx]
        ELSE IF b.r.op = CMD_MARK
             THEN IF b.r.arg = label
                  THEN [err |-> "ok", pos |-> b.r.pos, index |-> insert(b.idx, b.r.arg, p)]
                  ELSE scan_stores_start(bytes, b.r.pos, insert(b.idx, b.r.arg, p), label)
             ELSE scan_stores_start(bytes, b.r.pos, b.idx, label) :
        b \in { [r |-> read_inst(bytes, p), idx |-> idx] } } : TRUE

RECURSIVE scan(_, _, _, _)
\* the loop of Machine::jump: records are read from offset p on, every Mark is
\* inserted into the index, until Mark(label) has been inserted or the stream ends
\* (b holds the record read and the index, bound as the one element of a set,
\* so that they are evaluated once)
scan(bytes, p, idx, label) ==
    CHOOSE res \in
      { IF b.r.err = "EndOfFile"
        THEN [err |-> "UndefinedLabel", pos |-> b.r.pos, index |-> b.idx]
        ELSE IF b.r.op = CMD_MARK
             THEN IF b.r.arg = label
                  THEN [err |-> "ok", pos |-> b.r.pos,
                        index |-> insert(b.idx, b.r.arg, b.r.pos)]
                  ELSE scan(bytes, b.r.pos, insert(b.idx, b.r.arg, b.r.pos), label)
             ELSE scan(bytes, b.r.pos, b.idx, label) :
        b \in { [r |-> read_inst(bytes, p), idx |-> idx] } } : TRUE

\* jump, but a label that is neither indexed nor found is not reported
jump_ignores_undefined(bytes, p, idx, label) ==
    IF label \in DOMAIN idx
    THEN [err |-> "ok", pos |-> idx[label], index |-> idx]
    ELSE [err |-> "ok"] @@ scan(bytes, p, idx, label)

\* Machine::jump
jump(bytes, p, idx, label) ==
    IF label \in DOMAIN idx
    THEN [err |-> "ok", pos |-> idx[label], index |-> idx]
    ELSE scan(bytes, p, idx, label)

\* mark, but the index is started anew with the label marked
mark_only_latest(p, idx, label) == [l \in {label} |-> p]

\* mark, but nothing is inserted
mark_forgets(p, idx, label) == idx

\* Machine::mark
mark(p, idx, label) == insert(idx, label, p)

\* the tests Machine::step passes to jump_if
is_zero(x) == x = 0
is_negative(x) == x < 0

\* a call of the closure test that Machine::step passed, on the popped x
call_test(test, x) == IF test = "zero" THEN is_zero(x) ELSE is_negative(x)

\* jump_if, but the label is resolved before the value is tested
jump_if_resolves_first(bytes, p, idx, s, label, test) ==
    IF Len(s) = 0
    THEN [err |-> "IllegalStackManipulation", pos |-> p, index |-> idx, stack |-> s]
    ELSE IF call_test(test, Top(s))
         THEN [stack |-> Pop(s)] @@ jump(bytes, p, idx, label)
         ELSE [err   |-> jump(bytes, p, idx, label).err, pos |-> p,
               index |-> jump(bytes, p, idx, label).index, stack |-> Pop(s)]

\* Machine::jump_if
jump_if(bytes, p, idx, s, label, test) ==
    IF Len(s) = 0
    THEN [err |-> "IllegalStackManipulation", pos |-> p, index |-> idx, stack |-> s]
    ELSE IF call_test(test, Top(s))
         THEN [stack |-> Pop(s)] @@ jump(bytes, p, idx, label)
         ELSE [err |-> "ok", pos |-> p, index |-> idx, stack |-> Pop(s)]

\* do_return, but the oldest offset of the call stack is taken
do_return_oldest(p, cs) ==
    IF Len(cs) = 0 THEN [err |-> "CallStackEmpty", pos |-> p, caller |-> cs]
    ELSE [err |-> "ok", pos |-> Head(cs), caller |-> Tail(cs)]

\* Machine::do_return
do_return(p, cs) ==
    IF Len(cs) = 0 THEN [err |-> "CallStackEmpty", pos |-> p, caller |-> cs]
    ELSE [err |-> "ok", pos |-> Top(cs), caller |-> Pop(cs)]

\* the bytes write!(stdout, "{}", c) emits for the char c < 256 (UTF-8)
char_bytes(c) == IF c < 128 THEN <<c>> ELSE <<192 + (c \div 64), 128 + (c % 64)>>

RECURSIVE digits(_)
\* the decimal digits of m >= 0 as ASCII codes
digits(m) == IF m < 10 THEN <<48 + m>> ELSE Append(digits(m \div 10), 48 + (m % 10))

\* the bytes write!(stdout, "{}", n) emits for the i64 n
num_bytes(n) == IF n < 0 THEN <<45>> \o digits(-n) ELSE digits(n)

\* Machine::put_char: n.to_u8().unwrap() fails for n > 255
put_char(s, o) ==
    IF Len(s) = 0 THEN [err |-> "IllegalStackManipulation", stack |-> s, stdout |-> o]
    ELSE LET n == Top(s) IN
         IF n >= 0
         THEN IF n > 255 THEN [err |-> "panic", stack |-> Pop(s), stdout |-> o]
              ELSE [err |-> "ok", stack |-> Pop(s), stdout |-> o \o char_bytes(n)]
         ELSE [err |-> "IllegalStackManipulation", stack |-> Pop(s), stdout |-> o]

\* Machine::put_num
put_num(s, o) ==
    IF Len(s) = 0 THEN [err |-> "IllegalStackManipulation", stack |-> s, stdout |-> o]
    ELSE [err |-> "ok", stack |-> Pop(s), stdout |-> o \o num_bytes(Top(s))]

\* get_char, but the character is put under the address instead of on top of it
get_char_swapped(s, h, inp) ==
    IF inp = <<>>
    THEN [err |-> "MachineIoError(EndOfFile)", stack |-> s, heap |-> h, stdin |-> inp]
    ELSE IF s = <<>>
         THEN [stdin |-> Tail(inp)] @@ store(<<Head(inp)>>, h)
         ELSE [stdin |-> Tail(inp)] @@ store(Append(Append(Pop(s), Head(inp)), Top(s)), h)

\* Machine::get_char: Buffer::read_char fails at the end of the input
get_char(s, h, inp) ==
    IF inp = <<>>
    THEN [err |-> "MachineIoError(EndOfFile)", stack |-> s, heap |-> h, stdin |-> inp]
    ELSE [stdin |-> Tail(inp)] @@ store(Append(s, Head(inp)), h)

\* Buffer::read_line: the characters up to and including the first LF, or all of them
line_len(inp) ==
    IF \E i \in 1..Len(inp) : inp[i] = 10
    THEN CHOOSE i \in 1..Len(inp) : inp[i] = 10 /\ \A j \in 1..(i - 1) : inp[j] # 10
    ELSE Len(inp)

\* line.replace("\n", "")
strip_lf(cs) == SelectSeq(cs, LAMBDA c : c # 10)

IsDigit(c) == c >= 48 /\ c <= 57

RECURSIVE digits_value(_)
digits_value(cs) ==
    IF cs = <<>> THEN 0 ELSE digits_value(Pop(cs)) * 10 + (Top(cs) - 48)

\* from_str::<i64>: an optional '-' and at least one decimal digit; None is <<>>
from_str(cs) ==
    LET body == IF cs # <<>> /\ Head(cs) = 45 THEN Tail(cs) ELSE cs IN
    IF body = <<>> \/ \E i \in 1..Len(body) : ~IsDigit(body[i])
    THEN <<>>
    ELSE IF cs[1] = 45 THEN << -digits_value(body) >> ELSE << digits_value(body) >>

\* Machine::get_num
get_num(s, h, inp) ==
    IF inp = <<>>
    THEN [err |-> "MachineIoError(EndOfFile)", stack |-> s, heap |-> h, stdin |-> inp]
    ELSE LET k    == line_len(inp)
             line == SubSeq(inp, 1, k)
             rest == SubSeq(inp, k + 1, Len(inp))
             n    == from_str(strip_lf(line))
         IN  IF n = <<>>
             THEN [err |-> "MachineIoError(InvalidInput)", stack |-> s, heap |-> h,
                   stdin |-> rest]
             ELSE [stdin |-> rest] @@ store(Append(s, n[1]), h)

-----------------------------------------------------------------------------
(* The programs and streams the model runs *)

SeqsUpTo(S, n) == UNION { [1..k -> S] : k \in 0..n }

Pushes(vs) == [i \in 1..Len(vs) |-> <<"StackPush", vs[i]>>]

\* the operation a straight-line program applies to the values it pushed
OneOps ==
    { <<k>> : k \in PlainKinds }
      \cup { <<k, n>> : k \in {"StackCopy", "StackSlide"}, n \in (-1)..MaxPush }

\* straight-line programs: some pushes and one operation
StackPrograms ==
    { Pushes(vs) \o <<op>> : vs \in SeqsUpTo(Values, MaxPush), op \in OneOps }

FlowInsts ==
    { <<k, l>> : k \in {"Mark", "Call", "Jump"}, l \in Labels }
      \cup { <<"JumpIfZero", 1>>, <<"JumpIfNegative", 2>>, <<"Return">>, <<"Exit">>,
             <<"StackPush", 0>>, <<"StackPush", -1>> }

FlowPrograms == SeqsUpTo(FlowInsts, MaxFlowLen) \ { <<>> }

\* the program of machine.rs test_flow, after the two values the test puts on the stack
TestFlow ==
    << <<"StackPush", -1>>, <<"StackPush", 0>>,
       <<"Jump", 1>>, <<"Mark", 3>>, <<"Call", 4>>, <<"Exit">>, <<"Mark", 2>>,
       <<"JumpIfNegative", 3>>, <<"Mark", 1>>, <<"JumpIfZero", 2>>, <<"Mark", 4>>,
       <<"Return">> >>

\* PUSH 10 / CALL sub / EXIT / MARK sub / PUTN / RETURN
CallReturn ==
    << <<"StackPush", 10>>, <<"Call", 1>>, <<"Exit">>, <<"Mark", 1>>, <<"PutNumber">>,
       <<"Return">> >>

\* a subroutine that calls a second one; each prints its number when its callee is back
NestedCalls ==
    << <<"Call", 1>>, <<"StackPush", 0>>, <<"PutNumber">>, <<"Exit">>,
       <<"Mark", 1>>, <<"Call", 2>>, <<"StackPush", 1>>, <<"PutNumber">>, <<"Return">>,
       <<"Mark", 2>>, <<"StackPush", 2>>, <<"PutNumber">>, <<"Return">> >>

\* the same subroutine called twice: the second Call finds the label in the index
CallTwice ==
    << <<"Call", 1>>, <<"Call", 1>>, <<"Exit">>, <<"Mark", 1>>, <<"StackPush", 7>>,
       <<"PutNumber">>, <<"Return">> >>

\* a loop that counts 2 down to 0 through a backward Jump
CountDown ==
    << <<"StackPush", 2>>, <<"Mark", 1>>, <<"StackPush", -1>>, <<"Addition">>,
       <<"StackDuplicate">>, <<"JumpIfZero", 2>>, <<"Jump", 1>>, <<"Mark", 2>>,
       <<"Exit">> >>

\* PUSH -7 / PUSH 2 / DIV / PUTN / EXIT
DivTrunc ==
    << <<"StackPush", -7>>, <<"StackPush", 2>>, <<"Division">>, <<"PutNumber">>,
       <<"Exit">> >>

\* the program of machine.rs test_io, after the four values the test puts on the stack
TestIo ==
    << <<"StackPush", 5>>, <<"StackPush", 66>>, <<"StackPush", 2>>, <<"StackPush", 1>>,
       <<"GetCharactor">>, <<"GetNumber">>, <<"PutCharactor">>, <<"PutNumber">> >>

\* the program of machine.rs test_heap
TestHeap ==
    << <<"StackPush", 1>>, <<"StackPush", 1>>, <<"StackPush", 2>>, <<"HeapStore">>,
       <<"HeapRetrieve">> >>

\* the program of machine.rs test_stack
TestStack ==
    << <<"StackPush", 1>>, <<"StackDuplicate">>, <<"StackCopy", 1>>, <<"StackSwap">>,
       <<"StackDiscard">>, <<"StackSlide", 1>> >>

\* programs in the manner of test_heap: two Stores to one address, then a Retrieve
HeapValues == {-2, 0, 7}

HeapPrograms ==
    { << <<"StackPush", a>>, <<"StackPush", v>>, <<"HeapStore">>,
         <<"StackPush", a>>, <<"StackPush", w>>, <<"HeapStore">>,
         <<"StackPush", b>>, <<"HeapRetrieve">>, <<"Exit">> >> :
        a \in Values, b \in Values, v \in HeapValues, w \in HeapValues }

\* PutChar of a value above 127, and of one above 255 (322 = 256 + 66)
PutCharLatin == << <<"StackPush", 233>>, <<"PutCharactor">>, <<"Exit">> >>

PutCharWide == << <<"StackPush", 322>>, <<"PutCharactor">>, <<"Exit">> >>

Scenarios ==
    { TestFlow, CallReturn, NestedCalls, CallTwice, CountDown, DivTrunc, TestIo,
      TestHeap, TestStack, PutCharLatin, PutCharWide }

Programs == StackPrograms \cup FlowPrograms \cup HeapPrograms \cup Scenarios

\* a byte no opcode uses
InvalidOpcode == CHOOSE b \in 0..255 : b \notin Opcodes

\* the streams a reader may be given for the instructions p: what the writer wrote,
\* and for the shortest programs also a stream cut short or followed by a stray byte
Streams(p) ==
    LET bytes == assemble(p) IN
    {bytes} \cup
      IF Len(p) <= 2
      THEN { SubSeq(bytes, 1, Len(bytes) - c) : c \in 1..MaxCut } \cup { Append(bytes, InvalidOpcode) }
      ELSE {}

\* what the program can read from stdin
InputsOf(p) ==
    IF \E i \in 1..Len(p) : p[i][1] \in {"GetCharactor", "GetNumber"}
    THEN Inputs ELSE { <<>> }

-----------------------------------------------------------------------------
(* Machine::new and the start of Machine::run *)

Init ==
    /\ insts \in Programs
    /\ program \in Streams(insts)
    /\ stdin \in InputsOf(insts)
    /\ pos = 0
    /\ stack = <<>>
    /\ heap = EmptyMap
    /\ index = EmptyMap
    /\ caller = <<>>
    /\ stdout = <<>>
    /\ status = "running"
    /\ last = <<>>
    /\ out = <<>>
    /\ runs = 1
    /\ lang = ""
    /\ chain = <<>>

-----------------------------------------------------------------------------
(* Machine::step, one action per arm of its match.  run returns as soon as  *)
(* step returns Ok(false) ("halted") or Err(e) (status e).                  *)

\* what program.read_inst() returns to step
Fetched == read_inst(program, pos)

\* step has read the record of opcode op
Dispatch(op) ==
    /\ status = "running"
    /\ Fetched.err = "ok"
    /\ Fetched.op = op
    /\ last' = <<pos, Fetched.op, Fetched.arg>>

\* try!(...); Ok(true)
Continue(err) == IF err = "ok" THEN "running" ELSE err

\* i64::to_uint: None for a negative number
to_uint_fails(n) == n < 0

StepPush ==
    /\ Dispatch(CMD_PUSH)
    /\ Len(stack) < MaxStack
    /\ LET r == push(stack, Fetched.arg) IN
       /\ stack' = r.stack
       /\ status' = Continue(r.err)
    /\ pos' = Fetched.pos
    /\ UNCHANGED <<lang, chain, runs, insts, program, heap, index, caller, stdin, stdout, out>>

StepDup ==
    /\ Dispatch(CMD_DUP)
    /\ Len(stack) < MaxStack
    /\ LET r == copy(stack, 0) IN
       /\ stack' = r.stack
       /\ status' = Continue(r.err)
    /\ pos' = Fetched.pos
    /\ UNCHANGED <<lang, chain, runs, insts, program, heap, index, caller, stdin, stdout, out>>

StepCopy ==
    /\ Dispatch(CMD_COPY)
    /\ Len(stack) < MaxStack
    /\ IF to_uint_fails(Fetched.arg)
       THEN /\ status' = "panic"
            /\ stack' = stack
       ELSE LET r == copy(stack, Fetched.arg) IN
            /\ stack' = r.stack
            /\ status' = Continue(r.err)
    /\ pos' = Fetched.pos
    /\ UNCHANGED <<lang, chain, runs, insts, program, heap, index, caller, stdin, stdout, out>>

StepSwap ==
    /\ Dispatch(CMD_SWAP)
    /\ LET r == swap(stack) IN
       /\ stack' = r.stack
       /\ status' = Continue(r.err)
    /\ pos' = Fetched.pos
    /\ UNCHANGED <<lang, chain, runs, insts, program, heap, index, caller, stdin, stdout, out>>

StepDiscard ==
    /\ Dispatch(CMD_DISCARD)
    /\ LET r == discard(stack) IN
       /\ stack' = r.stack
       /\ status' = Continue(r.err)
    /\ pos' = Fetched.pos
    /\ UNCHANGED <<lang, chain, runs, insts, program, heap, index, caller, stdin, stdout, out>>

StepSlide ==
    /\ Dispatch(CMD_SLIDE)
    /\ IF to_uint_fails(Fetched.arg)
       THEN /\ status' = "panic"
            /\ stack' = stack
       ELSE LET r == slide(stack, Fetched.arg) IN
            /\ stack' = r.stack
            /\ status' = Continue(r.err)
    /\ pos' = Fetched.pos
    /\ UNCHANGED <<lang, chain, runs, insts, program, heap, index, caller, stdin, stdout, out>>

StepAdd ==
    /\ Dispatch(CMD_ADD)
    /\ LET r == calc(stack, "add") IN
       /\ stack' = r.stack
       /\ status' = Continue(r.err)
    /\ pos' = Fetched.pos
    /\ UNCHANGED <<lang, chain, runs, insts, program, heap, index, caller, stdin, stdout, out>>

StepSub ==
    /\ Dispatch(CMD_SUB)
    /\ LET r == calc(stack, "sub") IN
       /\ stack' = r.stack
       /\ status' = Continue(r.err)
    /\ pos' = Fetched.pos
    /\ UNCHANGED <<lang, chain, runs, insts, program, heap, index, caller, stdin, stdout, out>>

StepMul ==
    /\ Dispatch(CMD_MUL)
    /\ LET r == calc(stack, "mul") IN
       /\ stack' = r.stack
       /\ status' = Continue(r.err)
    /\ pos' = Fetched.pos
    /\ UNCHANGED <<lang, chain, runs, insts, program, heap, index, caller, stdin, stdout, out>>

StepDiv ==
    /\ Dispatch(CMD_DIV)
    /\ LET r == dcalc(stack, "div") IN
       /\ stack' = r.stack
       /\ status' = Continue(r.err)
    /\ pos' = Fetched.pos
    /\ UNCHANGED <<lang, chain, runs, insts, program, heap, index, caller, stdin, stdout, out>>

StepMod ==
    /\ Dispatch(CMD_MOD)
    /\ LET r == dcalc(stack, "mod") IN
       /\ stack' = r.stack
       /\ status' = Continue(r.err)
    /\ pos' = Fetched.pos
    /\ UNCHANGED <<lang, chain, runs, insts, program, heap, index, caller, stdin, stdout, out>>

StepStore ==
    /\ Dispatch(CMD_STORE)
    /\ LET r == store(stack, heap) IN
       /\ stack' = r.stack
       /\ heap' = r.heap
       /\ status' = Continue(r.err)
    /\ pos' = Fetched.pos
    /\ UNCHANGED <<lang, chain, runs, insts, program, index, caller, stdin, stdout, out>>

StepRetrieve ==
    /\ Dispatch(CMD_RETRIEVE)
    /\ LET r == retrieve(stack, heap) IN
       /\ stack' = r.stack
       /\ status' = Continue(r.err)
    /\ pos' = Fetched.pos
    /\ UNCHANGED <<lang, chain, runs, insts, program, heap, index, caller, stdin, stdout, out>>

StepMark ==
    /\ Dispatch(CMD_MARK)
    /\ index' = mark(Fetched.pos, index, Fetched.arg)
    /\ status' = "running"
    /\ pos' = Fetched.pos
    /\ UNCHANGED <<lang, chain, runs, insts, program, stack, heap, caller, stdin, stdout, out>>

\* Machine::call: the offset after the Call record is pushed, then jump
StepCall ==
    /\ Dispatch(CMD_CALL)
    /\ Len(caller) < MaxCalls
    /\ caller' = Append(caller, Fetched.pos)
    /\ LET r == jump(program, Fetched.pos, index, Fetched.arg) IN
       /\ pos' = r.pos
       /\ index' = r.index
       /\ status' = Continue(r.err)
    /\ UNCHANGED <<lang, chain, runs, insts, program, stack, heap, stdin, stdout, out>>

RECURSIVE passed_pushes(_, _, _)
\* the operands of the Push records that begin at the offsets p .. q - 1
passed_pushes(bytes, p, q) ==
    CHOOSE res \in
      { IF p >= q \/ r.err # "ok" THEN <<>>
        ELSE IF r.op = CMD_PUSH THEN <<r.arg>> \o passed_pushes(bytes, r.pos, q)
        ELSE passed_pushes(bytes, r.pos, q) :
        r \in { read_inst(bytes, p) } } : TRUE

\* StepJump, but the Push records a forward scan passes are executed
StepJumpExecutesPassed ==
    /\ Dispatch(CMD_JUMP)
    /\ LET r == jump(program, Fetched.pos, index, Fetched.arg) IN
       /\ pos' = r.pos
       /\ index' = r.index
       /\ status' = Continue(r.err)
       /\ stack' = IF Fetched.arg \in DOMAIN index THEN stack
                   ELSE stack \o passed_pushes(program, Fetched.pos, r.pos)
    /\ UNCHANGED <<lang, chain, runs, insts, program, heap, caller, stdin, stdout, out>>

StepJump ==
    /\ Dispatch(CMD_JUMP)
    /\ LET r == jump(program, Fetched.pos, index, Fetched.arg) IN
       /\ pos' = r.pos
       /\ index' = r.index
       /\ status' = Continue(r.err)
    /\ UNCHANGED <<lang, chain, runs, insts, program, stack, heap, caller, stdin, stdout, out>>

StepJumpZ ==
    /\ Dispatch(CMD_JUMPZ)
    /\ LET r == jump_if(program, Fetched.pos, index, stack, Fetched.arg, "zero") IN
       /\ pos' = r.pos
       /\ index' = r.index
       /\ stack' = r.stack
       /\ status' = Continue(r.err)
    /\ UNCHANGED <<lang, chain, runs, insts, program, heap, caller, stdin, stdout, out>>

StepJumpN ==
    /\ Dispatch(CMD_JUMPN)
    /\ LET r == jump_if(program, Fetched.pos, index, stack, Fetched.arg, "negative") IN
       /\ pos' = r.pos
       /\ index' = r.index
       /\ stack' = r.stack
       /\ status' = Continue(r.err)
    /\ UNCHANGED <<lang, chain, runs, insts, program, heap, caller, stdin, stdout, out>>

StepReturn ==
    /\ Dispatch(CMD_RETURN)
    /\ LET r == do_return(Fetched.pos, caller) IN
       /\ pos' = r.pos
       /\ caller' = r.caller
       /\ status' = Continue(r.err)
    /\ UNCHANGED <<lang, chain, runs, insts, program, stack, heap, index, stdin, stdout, out>>

StepExit ==
    /\ Dispatch(CMD_EXIT)
    /\ status' = "halted"
    /\ pos' = Fetched.pos
    /\ UNCHANGED <<lang, chain, runs, insts, program, stack, heap, index, caller, stdin, stdout, out>>

StepPutChar ==
    /\ Dispatch(CMD_PUTC)
    /\ LET r == put_char(stack, stdout) IN
       /\ stack' = r.stack
       /\ stdout' = r.stdout
       /\ status' = Continue(r.err)
    /\ pos' = Fetched.pos
    /\ UNCHANGED <<lang, chain, runs, insts, program, heap, index, caller, stdin, out>>

StepPutNum ==
    /\ Dispatch(CMD_PUTN)
    /\ LET r == put_num(stack, stdout) IN
       /\ stack' = r.stack
       /\ stdout' = r.stdout
       /\ status' = Continue(r.err)
    /\ pos' = Fetched.pos
    /\ UNCHANGED <<lang, chain, runs, insts, program, heap, index, caller, stdin, out>>

StepGetChar ==
    /\ Dispatch(CMD_GETC)
    /\ LET r == get_char(stack, heap, stdin) IN
       /\ stack' = r.stack
       /\ heap' = r.heap
       /\ stdin' = r.stdin
       /\ status' = Continue(r.err)
    /\ pos' = Fetched.pos
    /\ UNCHANGED <<lang, chain, runs, insts, program, index, caller, stdout, out>>

StepGetNum ==
    /\ Dispatch(CMD_GETN)
    /\ LET r == get_num(stack, heap, stdin) IN
       /\ stack' = r.stack
       /\ heap' = r.heap
       /\ stdin' = r.stdin
       /\ status' = Continue(r.err)
    /\ pos' = Fetched.pos
    /\ UNCHANGED <<lang, chain, runs, insts, program, index, caller, stdout, out>>

\* StepEndOfFile, but the end of the stream ends the run successfully
StepEndOfFileHalts ==
    /\ status = "running"
    /\ Fetched.err = "EndOfFile"
    /\ status' = "halted"
    /\ pos' = Fetched.pos
    /\ last' = <<pos, "EndOfFile", 0>>
    /\ UNCHANGED <<lang, chain, runs, insts, program, stack, heap, index, caller, stdin, stdout, out>>

\* Err(ref e) if e.kind == EndOfFile => Err(MissingExitInstruction)
StepEndOfFile ==
    /\ status = "running"
    /\ Fetched.err = "EndOfFile"
    /\ status' = "MissingExitInstruction"
    /\ pos' = Fetched.pos
    /\ last' = <<pos, "EndOfFile", 0>>
    /\ UNCHANGED <<lang, chain, runs, insts, program, stack, heap, index, caller, stdin, stdout, out>>

\* _ => Err(OtherMachineError)
StepOther ==
    /\ status = "running"
    /\ Fetched.err = "ok"
    /\ Fetched.op \notin Opcodes
    /\ status' = "OtherMachineError"
    /\ pos' = Fetched.pos
    /\ last' = <<pos, Fetched.op, Fetched.arg>>
    /\ UNCHANGED <<lang, chain, runs, insts, program, stack, heap, index, caller, stdin, stdout, out>>

Next ==
    \/ StepPush \/ StepDup \/ StepCopy \/ StepSwap \/ StepDiscard \/ StepSlide
    \/ StepAdd \/ StepSub \/ StepMul \/ StepDiv \/ StepMod
    \/ StepStore \/ StepRetrieve
    \/ StepMark \/ StepCall \/ StepJump \/ StepJumpZ \/ StepJumpN \/ StepReturn \/ StepExit
    \/ StepPutChar \/ StepPutNum \/ StepGetChar \/ StepGetNum
    \/ StepEndOfFile \/ StepOther

Spec == Init /\ [][Next]_vars

-----------------------------------------------------------------------------
(* Machine::run called again on a Machine whose earlier run has returned *)

\* the programs of a later run: one that only exits, one that prints what it finds
\* on the stack, and one that prints what it finds in the heap at address 2
RerunPrograms ==
    { << <<"Exit">> >>,
      << <<"PutNumber">>, <<"Exit">> >>,
      << <<"StackPush", 2>>, <<"HeapRetrieve">>, <<"PutNumber">>, <<"Exit">> >> }

\* Machine::run on the same Machine and a new reader: index and caller are new,
\* stack, heap, stdin and stdout are the fields of the Machine
Rerun ==
    /\ status \notin {"running", "panic"}
    /\ runs < MaxRuns
    /\ runs' = runs + 1
    /\ insts' \in RerunPrograms
    /\ program' = assemble(insts')
    /\ pos' = 0
    /\ index' = EmptyMap
    /\ caller' = <<>>
    /\ status' = "running"
    /\ last' = <<>>
    /\ UNCHANGED <<stack, heap, stdin, stdout, out, lang, chain>>

NextRerun == Next \/ Rerun

SpecRerun == Init /\ [][NextRerun]_vars

-----------------------------------------------------------------------------
(* bytecode.rs: writing a sequence and reading it back with disassemble() *)

CodecInsts ==
    { <<k>> : k \in PlainKinds } \cup { <<k, n>> : k \in OperandKinds, n \in CodecOperands }

CodecPrograms == SeqsUpTo(CodecInsts, MaxCodecLen)

InitCodec ==
    /\ insts \in CodecPrograms
    /\ program \in Streams(insts)
    /\ pos = 0
    /\ stack = <<>>
    /\ heap = EmptyMap
    /\ index = EmptyMap
    /\ caller = <<>>
    /\ stdin = <<>>
    /\ stdout = <<>>
    /\ status = "disassembling"
    /\ last = <<>>
    /\ out = <<>>
    /\ runs = 1
    /\ lang = ""
    /\ chain = <<>>

\* Instructions::next: Some(Ok(instruction))
NextSome ==
    /\ status = "disassembling"
    /\ Fetched.err = "ok"
    /\ Fetched.op \in Opcodes
    /\ out' = Append(out, to_ir(Fetched.op, Fetched.arg))
    /\ last' = <<pos, Fetched.op, Fetched.arg>>
    /\ pos' = Fetched.pos
    /\ UNCHANGED <<lang, chain, runs, insts, program, stack, heap, index, caller, stdin, stdout, status>>

\* Instructions::next: Err(IoError { kind: EndOfFile, .. }) => None
NextNone ==
    /\ status = "disassembling"
    /\ Fetched.err = "EndOfFile"
    /\ status' = "end"
    /\ last' = <<pos, "EndOfFile", 0>>
    /\ pos' = Fetched.pos
    /\ UNCHANGED <<lang, chain, runs, insts, program, stack, heap, index, caller, stdin, stdout, out>>

\* Instructions::next: _ => Some(Err(standard_error(InvalidInput)))
NextInvalid ==
    /\ status = "disassembling"
    /\ Fetched.err = "ok"
    /\ Fetched.op \notin Opcodes
    /\ status' = "InvalidInput"
    /\ last' = <<pos, Fetched.op, Fetched.arg>>
    /\ pos' = Fetched.pos
    /\ UNCHANGED <<lang, chain, runs, insts, program, stack, heap, index, caller, stdin, stdout, out>>

NextCodec == NextSome \/ NextNone \/ NextInvalid

SpecCodec == InitCodec /\ [][NextCodec]_vars

-----------------------------------------------------------------------------
(* syntax/whitespace.rs: Scan, Tokens and Parser.  A text is a sequence of   *)
(* characters (code points); a token is "Space", "Tab", "LF", or "Err" for   *)
(* Some(Err(e)) of the underlying iterator.                                  *)

\* Scan::next and Tokens::next of whitespace.rs: every other character is skipped
ws_tokens(text) ==
    SelectSeq([i \in 1..Len(text) |-> CASE text[i] = 32 -> "Space"
                                        [] text[i] = 9  -> "Tab"
                                        [] text[i] = 10 -> "LF"
                                        [] OTHER        -> "Skip"],
              LAMBDA t : t # "Skip")

\* self.iter.next(): the token at i, "None" after the last
NextTok(toks, i) == IF i <= Len(toks) THEN toks[i] ELSE "None"

\* Parser::parse_value: the bits up to the next LF
parse_value(toks, i) ==
    LET stops == { j \in i..Len(toks) : toks[j] \in {"LF", "Err"} } IN
    IF stops = {} THEN [err |-> "InvalidInput", value |-> <<>>, pos |-> Len(toks) + 1]
    ELSE LET j == CHOOSE k \in stops : \A m \in stops : k <= m IN
         IF toks[j] = "Err" THEN [err |-> "EndOfFile", value |-> <<>>, pos |-> j + 1]
         ELSE [err |-> "ok",
               value |-> [k \in 1..(j - i) |-> IF toks[i + k - 1] = "Space" THEN 0 ELSE 1],
               pos |-> j + 1]

\* Parser::parse_sign
parse_sign(toks, i) ==
    CASE NextTok(toks, i) = "Space" -> [err |-> "ok", positive |-> TRUE, pos |-> i + 1]
      [] NextTok(toks, i) = "Tab"   -> [err |-> "ok", positive |-> FALSE, pos |-> i + 1]
      [] NextTok(toks, i) = "Err"   -> [err |-> "EndOfFile", positive |-> TRUE, pos |-> i + 1]
      [] OTHER                      -> [err |-> "InvalidInput", positive |-> TRUE, pos |-> i + 1]

RECURSIVE bits_value(_)
\* the number the binary digits denote
bits_value(bits) ==
    IF bits = <<>> THEN 0
    ELSE 2 * bits_value(SubSeq(bits, 1, Len(bits) - 1)) + bits[Len(bits)]

\* from_str_radix::<i64>(value, 2): None for no digit and for a number above i64::MAX
from_str_radix(bits) ==
    LET ones == { k \in 1..Len(bits) : bits[k] = 1 } IN
    IF bits = <<>> THEN <<>>
    ELSE IF ones # {} /\ Len(bits) - (CHOOSE k \in ones : \A m \in ones : k <= m) + 1 > 63 THEN <<>>
    ELSE << bits_value(bits) >>

\* Parser::parse_number
parse_number(toks, i) ==
    LET sg == parse_sign(toks, i) IN
    IF sg.err # "ok" THEN [err |-> sg.err, n |-> 0, pos |-> sg.pos]
    ELSE LET v == parse_value(toks, sg.pos) IN
         IF v.err # "ok" THEN [err |-> v.err, n |-> 0, pos |-> v.pos]
         ELSE LET n == from_str_radix(v.value) IN
              IF n = <<>> THEN [err |-> "InvalidInput", n |-> 0, pos |-> v.pos]
              ELSE [err |-> "ok", n |-> IF sg.positive THEN n[1] ELSE n[1] * (-1), pos |-> v.pos]

\* parse_label, but the labels seen are not looked up: every label gets a new id
parse_label_always_new(toks, i, labels, count) ==
    LET v == parse_value(toks, i) IN
    IF v.err # "ok"
    THEN [err |-> v.err, n |-> 0, pos |-> v.pos, labels |-> labels, count |-> count]
    ELSE [err |-> "ok", n |-> count, pos |-> v.pos,
          labels |-> insert(labels, v.value, count), count |-> count + 1]

\* Parser::parse_label: labels maps the strings seen to their ids, count is the
\* next value of the Counter
parse_label(toks, i, labels, count) ==
    LET v == parse_value(toks, i) IN
    IF v.err # "ok"
    THEN [err |-> v.err, n |-> 0, pos |-> v.pos, labels |-> labels, count |-> count]
    ELSE IF v.value \in DOMAIN labels
         THEN [err |-> "ok", n |-> labels[v.value], pos |-> v.pos, labels |-> labels,
               count |-> count]
         ELSE [err |-> "ok", n |-> count, pos |-> v.pos,
               labels |-> insert(labels, v.value, count), count |-> count + 1]

\* the results of the parse_* functions: an instruction, or an error
Parsed(inst, p, labels, count) ==
    [err |-> "ok", inst |-> inst, pos |-> p, labels |-> labels, count |-> count]

Failed(e, p, labels, count) ==
    [err |-> e, inst |-> <<>>, pos |-> p, labels |-> labels, count |-> count]

\* Some(Err(e)) => Err(e); every other arm that fails is of kind InvalidInput
ErrOf(t) == IF t = "Err" THEN "EndOfFile" ELSE "InvalidInput"

\* Ok(ir::X(try!(self.parse_number())))
WithNumber(kind, toks, i, labels, count) ==
    LET r == parse_number(toks, i) IN
    IF r.err = "ok" THEN Parsed(<<kind, r.n>>, r.pos, labels, count)
    ELSE Failed(r.err, r.pos, labels, count)

\* Ok(ir::X(try!(self.parse_label())))
WithLabel(kind, toks, i, labels, count) ==
    LET r == parse_label(toks, i, labels, count) IN
    IF r.err = "ok" THEN Parsed(<<kind, r.n>>, r.pos, r.labels, r.count)
    ELSE Failed(r.err, r.pos, labels, count)

\* Parser::parse_stack
parse_stack(toks, i, labels, count) ==
    LET t1 == NextTok(toks, i)  t2 == NextTok(toks, i + 1) IN
    CASE t1 = "Space" -> WithNumber("StackPush", toks, i + 1, labels, count)
      [] t1 = "LF" ->
           ( CASE t2 = "Space" -> Parsed(<<"StackDuplicate">>, i + 2, labels, count)
               [] t2 = "Tab"   -> Parsed(<<"StackSwap">>, i + 2, labels, count)
               [] t2 = "LF"    -> Parsed(<<"StackDiscard">>, i + 2, labels, count)
               [] OTHER        -> Failed(ErrOf(t2), i + 2, labels, count) )
      [] t1 = "Tab" ->
           ( CASE t2 = "Space" -> WithNumber("StackCopy", toks, i + 2, labels, count)
               [] t2 = "LF"    -> WithNumber("StackSlide", toks, i + 2, labels, count)
               [] OTHER        -> Failed(ErrOf(t2), i + 2, labels, count) )
      [] OTHER -> Failed(ErrOf(t1), i + 1, labels, count)

\* Parser::parse_arithmetic
parse_arithmetic(toks, i, labels, count) ==
    LET t1 == NextTok(toks, i)  t2 == NextTok(toks, i + 1) IN
    CASE t1 = "Space" ->
           ( CASE t2 = "Space" -> Parsed(<<"Addition">>, i + 2, labels, count)
               [] t2 = "Tab"   -> Parsed(<<"Subtraction">>, i + 2, labels, count)
               [] t2 = "LF"    -> Parsed(<<"Multiplication">>, i + 2, labels, count)
               [] OTHER        -> Failed(ErrOf(t2), i + 2, labels, count) )
      [] t1 = "Tab" ->
           ( CASE t2 = "Space" -> Parsed(<<"Division">>, i + 2, labels, count)
               [] t2 = "Tab"   -> Parsed(<<"Modulo">>, i + 2, labels, count)
               [] OTHER        -> Failed(ErrOf(t2), i + 2, labels, count) )
      [] OTHER -> Failed(ErrOf(t1), i + 1, labels, count)

\* parse_heap, but LF after Tab Tab is taken for Retrieve
parse_heap_accepts_TTN(toks, i, labels, count) ==
    LET t1 == NextTok(toks, i) IN
    CASE t1 = "Space" -> Parsed(<<"HeapStore">>, i + 1, labels, count)
      [] t1 \in {"Tab", "LF"} -> Parsed(<<"HeapRetrieve">>, i + 1, labels, count)
      [] OTHER        -> Failed(ErrOf(t1), i + 1, labels, count)

\* Parser::parse_heap
parse_heap(toks, i, labels, count) ==
    LET t1 == NextTok(toks, i) IN
    CASE t1 = "Space" -> Parsed(<<"HeapStore">>, i + 1, labels, count)
      [] t1 = "Tab"   -> Parsed(<<"HeapRetrieve">>, i + 1, labels, count)
      [] OTHER        -> Failed(ErrOf(t1), i + 1, labels, count)

\* Parser::parse_flow
parse_flow(toks, i, labels, count) ==
    LET t1 == NextTok(toks, i)  t2 == NextTok(toks, i + 1) IN
    CASE t1 = "Space" ->
           ( CASE t2 = "Space" -> WithLabel("Mark", toks, i + 2, labels, count)
               [] t2 = "Tab"   -> WithLabel("Call", toks, i + 2, labels, count)
               [] t2 = "LF"    -> WithLabel("Jump", toks, i + 2, labels, count)
               [] OTHER        -> Failed(ErrOf(t2), i + 2, labels, count) )
      [] t1 = "Tab" ->
           ( CASE t2 = "Space" -> WithLabel("JumpIfZero", toks, i + 2, labels, count)
               [] t2 = "Tab"   -> WithLabel("JumpIfNegative", toks, i + 2, labels, count)
               [] t2 = "LF"    -> Parsed(<<"Return">>, i + 2, labels, count)
               [] OTHER        -> Failed(ErrOf(t2), i + 2, labels, count) )
      [] t1 = "LF" ->
           ( CASE t2 = "LF" -> Parsed(<<"Exit">>, i + 2, labels, count)
               [] OTHER     -> Failed(ErrOf(t2), i + 2, labels, count) )
      [] OTHER -> Failed(ErrOf(t1), i + 1, labels, count)

\* Parser::parse_io
parse_io(toks, i, labels, count) ==
    LET t1 == NextTok(toks, i)  t2 == NextTok(toks, i + 1) IN
    CASE t1 = "Space" ->
           ( CASE t2 = "Space" -> Parsed(<<"PutCharactor">>, i + 2, labels, count)
               [] t2 = "Tab"   -> Parsed(<<"PutNumber">>, i + 2, labels, count)
               [] OTHER        -> Failed(ErrOf(t2), i + 2, labels, count) )
      [] t1 = "Tab" ->
           ( CASE t2 = "Space" -> Parsed(<<"GetCharactor">>, i + 2, labels, count)
               [] t2 = "Tab"   -> Parsed(<<"GetNumber">>, i + 2, labels, count)
               [] OTHER        -> Failed(ErrOf(t2), i + 2, labels, count) )
      [] OTHER -> Failed(ErrOf(t1), i + 1, labels, count)

\* the match of Parser::parse on the first tokens of an instruction
parse_inst(toks, i, labels, count) ==
    LET t1 == NextTok(toks, i)  t2 == NextTok(toks, i + 1) IN
    CASE t1 = "Space" -> parse_stack(toks, i + 1, labels, count)
      [] t1 = "Tab" ->
           ( CASE t2 = "Space" -> parse_arithmetic(toks, i + 2, labels, count)
               [] t2 = "Tab"   -> parse_heap(toks, i + 2, labels, count)
               [] t2 = "LF"    -> parse_io(toks, i + 2, labels, count)
               [] OTHER        -> Failed("InvalidInput", i + 2, labels, count) )
      [] t1 = "LF" -> parse_flow(toks, i + 1, labels, count)
      [] OTHER -> Failed(ErrOf(t1), i + 1, labels, count)

RECURSIVE parse_loop(_, _, _, _, _)
\* the loop of Parser::parse: output is the AST so far, r what the match on the
\* next instruction returned (bound as the one element of a set, so that it is
\* evaluated once)
parse_loop(toks, i, labels, count, output) ==
    IF NextTok(toks, i) = "None" THEN [err |-> "ok", ast |-> output]
    ELSE CHOOSE res \in
           { IF r.err # "ok" THEN [err |-> r.err, ast |-> output]
             ELSE parse_loop(toks, r.pos, r.labels, r.count, Append(output, r.inst)) :
             r \in { parse_inst(toks, i, labels, count) } } : TRUE

\* Parser::new and Parser::parse on the tokens of the text
Parser_parse(toks) ==
    CHOOSE res \in { parse_loop(t, 1, EmptyMap, 1, <<>>) : t \in { toks } } : TRUE

-----------------------------------------------------------------------------
(* syntax/dt.rs: Scan and Tokens *)

\* the characters of S, T and N of dt.rs
DT_S == <<12393>>
DT_T == <<31461, 35998, 12385, 12419, 12358, 12431, 12387, 65281>>
DT_N == <<8230>>

RECURSIVE dt_tokens(_, _)
\* Scan::next and Tokens::next of dt.rs from character i on: after the first
\* character of T the next seven are read and compared; the first that differs
\* is dropped with those before it, and the end of the text among them is an error
dt_tokens(text, i) ==
    IF i > Len(text) THEN <<>>
    ELSE IF text[i] = DT_S[1] THEN <<"Space">> \o dt_tokens(text, i + 1)
    ELSE IF text[i] = DT_N[1] THEN <<"LF">> \o dt_tokens(text, i + 1)
    ELSE IF text[i] = DT_T[1]
         THEN LET bad == { k \in 1..7 : i + k > Len(text) \/ text[i + k] # DT_T[k + 1] } IN
              IF bad = {} THEN <<"Tab">> \o dt_tokens(text, i + 8)
              ELSE LET k == CHOOSE m \in bad : \A n \in bad : m <= n IN
                   IF i + k > Len(text) THEN <<"Err">>
                   ELSE dt_tokens(text, i + k + 1)
    ELSE dt_tokens(text, i + 1)

-----------------------------------------------------------------------------
(* syntax/mod.rs: Compiler::compile and Decompiler::disassemble;             *)
(* the decompilers of whitespace.rs, dt.rs and assembly.rs                   *)

RECURSIVE disassemble(_, _, _)
\* Decompiler::disassemble: the loop over read_inst, from offset p on
\* (r, what read_inst returned, is bound as the one element of a set, so that
\* it is evaluated once)
disassemble(bytes, p, output) ==
    CHOOSE res \in
      { IF r.err = "EndOfFile" THEN [err |-> "ok", ast |-> output]
        ELSE IF r.op \notin Opcodes THEN [err |-> "InvalidInput", ast |-> output]
        ELSE disassemble(bytes, r.pos, Append(output, to_ir(r.op, r.arg))) :
        r \in { read_inst(bytes, p) } } : TRUE

RECURSIVE binary(_)
\* format!("{:t}", m) for m >= 0: the binary digits, "0" for 0
binary(m) == IF m < 2 THEN <<m>> ELSE Append(binary(m \div 2), m % 2)

\* write_num!, but the sign written is always the one of a number >= 0
num_tokens_unsigned(n) ==
    LET value == IF n < 0 THEN n * (-1) ELSE n
        bits  == binary(value)
    IN  << "Space" >>
          \o [k \in 1..Len(bits) |-> IF bits[k] = 0 THEN "Space" ELSE "Tab"]
          \o <<"LF">>

\* write_num! of whitespace.rs and DT::write_num without the command: the sign,
\* the binary digits of the magnitude as Space for 0 and Tab for 1, and LF
num_tokens(n) ==
    LET value == IF n < 0 THEN n * (-1) ELSE n
        bits  == binary(value)
    IN  << IF n < 0 THEN "Tab" ELSE "Space" >>
          \o [k \in 1..Len(bits) |-> IF bits[k] = 0 THEN "Space" ELSE "Tab"]
          \o <<"LF">>

\* the command each decompiler writes for an instruction (the strings of
\* whitespace.rs and the arrays of dt.rs name the same tokens)
inst_tokens ==
    ("StackPush" :> <<"Space", "Space">>) @@
    ("StackDuplicate" :> <<"Space", "LF", "Space">>) @@
    ("StackCopy" :> <<"Space", "Tab", "Space">>) @@
    ("StackSwap" :> <<"Space", "LF", "Tab">>) @@
    ("StackDiscard" :> <<"Space", "LF", "LF">>) @@
    ("StackSlide" :> <<"Space", "Tab", "LF">>) @@
    ("Addition" :> <<"Tab", "Space", "Space", "Space">>) @@
    ("Subtraction" :> <<"Tab", "Space", "Space", "Tab">>) @@
    ("Multiplication" :> <<"Tab", "Space", "Space", "LF">>) @@
    ("Division" :> <<"Tab", "Space", "Tab", "Space">>) @@
    ("Modulo" :> <<"Tab", "Space", "Tab", "Tab">>) @@
    ("HeapStore" :> <<"Tab", "Tab", "Space">>) @@
    ("HeapRetrieve" :> <<"Tab", "Tab", "Tab">>) @@
    ("Mark" :> <<"LF", "Space", "Space">>) @@
    ("Call" :> <<"LF", "Space", "Tab">>) @@
    ("Jump" :> <<"LF", "Space", "LF">>) @@
    ("JumpIfZero" :> <<"LF", "Tab", "Space">>) @@
    ("JumpIfNegative" :> <<"LF", "Tab", "Tab">>) @@
    ("Return" :> <<"LF", "Tab", "LF">>) @@
    ("Exit" :> <<"LF", "LF", "LF">>) @@
    ("PutCharactor" :> <<"Tab", "LF", "Space", "Space">>) @@
    ("PutNumber" :> <<"Tab", "LF", "Space", "Tab">>) @@
    ("GetCharactor" :> <<"Tab", "LF", "Tab", "Space">>) @@
    ("GetNumber" :> <<"Tab", "LF", "Tab", "Tab">>)

\* the text of a token in Whitespace and in DT
ws_glyph(t) == CASE t = "Space" -> <<32>> [] t = "Tab" -> <<9>> [] t = "LF" -> <<10>>

dt_glyph(t) == CASE t = "Space" -> DT_S [] t = "Tab" -> DT_T [] t = "LF" -> DT_N

\* the tokens a Whitespace or DT decompiler writes for one instruction
decompiled_tokens(inst) ==
    IF Len(inst) = 2 THEN inst_tokens[inst[1]] \o num_tokens(inst[2])
    ELSE inst_tokens[inst[1]]

RECURSIVE Glyphs(_, _)
\* the text of a sequence of tokens in the language l
Glyphs(l, toks) ==
    IF toks = <<>> THEN <<>>
    ELSE (IF l = "DT" THEN dt_glyph(Head(toks)) ELSE ws_glyph(Head(toks)))
           \o Glyphs(l, Tail(toks))

\* the mnemonics of assembly.rs
Mnemonic ==
    ("StackPush" :> <<80, 85, 83, 72>>) @@  \* PUSH
    ("StackDuplicate" :> <<68, 85, 80>>) @@  \* DUP
    ("StackCopy" :> <<67, 79, 80, 89>>) @@  \* COPY
    ("StackSwap" :> <<83, 87, 65, 80>>) @@  \* SWAP
    ("StackDiscard" :> <<68, 73, 83, 67, 65, 82, 68>>) @@  \* DISCARD
    ("StackSlide" :> <<83, 76, 73, 68, 69>>) @@  \* SLIDE
    ("Addition" :> <<65, 68, 68>>) @@  \* ADD
    ("Subtraction" :> <<83, 85, 66>>) @@  \* SUB
    ("Multiplication" :> <<77, 85, 76>>) @@  \* MUL
    ("Division" :> <<68, 73, 86>>) @@  \* DIV
    ("Modulo" :> <<77, 79, 68>>) @@  \* MOD
    ("HeapStore" :> <<83, 84, 79, 82, 69>>) @@  \* STORE
    ("HeapRetrieve" :> <<82, 69, 84, 82, 73, 69, 86, 69>>) @@  \* RETRIEVE
    ("Mark" :> <<77, 65, 82, 75>>) @@  \* MARK
    ("Call" :> <<67, 65, 76, 76>>) @@  \* CALL
    ("Jump" :> <<74, 85, 77, 80>>) @@  \* JUMP
    ("JumpIfZero" :> <<74, 85, 77, 80, 90>>) @@  \* JUMPZ
    ("JumpIfNegative" :> <<74, 85, 77, 80, 78>>) @@  \* JUMPN
    ("Return" :> <<82, 69, 84, 85, 82, 78>>) @@  \* RETURN
    ("Exit" :> <<69, 88, 73, 84>>) @@  \* EXIT
    ("PutCharactor" :> <<80, 85, 84, 67>>) @@  \* PUTC
    ("PutNumber" :> <<80, 85, 84, 78>>) @@  \* PUTN
    ("GetCharactor" :> <<71, 69, 84, 67>>) @@  \* GETC
    ("GetNumber" :> <<71, 69, 84, 78>>)  \* GETN

\* a nibble as an upper-case hexadecimal digit
HexDigit(d) == IF d < 10 THEN 48 + d ELSE 55 + d

\* format!("{:X}", n) for the i64 n: the hexadecimal digits of its 64 bits
\* without leading zeros
UpperHex(n) ==
    LET bytes   == write_be_i64(n)
        nibbles == [k \in 1..16 |-> IF k % 2 = 1 THEN bytes[(k + 1) \div 2] \div 16
                                    ELSE bytes[k \div 2] % 16]
        nonzero == { k \in 1..16 : nibbles[k] # 0 }
        first   == IF nonzero = {} THEN 16 ELSE CHOOSE k \in nonzero : \A m \in nonzero : k <= m
    IN  [k \in 1..(17 - first) |-> HexDigit(nibbles[first + k - 1])]

\* the line the Assembly decompiler writes for one instruction
asm_line(inst) ==
    IF Len(inst) = 1 THEN Mnemonic[inst[1]] \o <<10>>
    ELSE IF inst[1] \in {"StackPush", "StackCopy", "StackSlide"}
         THEN Mnemonic[inst[1]] \o <<32>> \o num_bytes(inst[2]) \o <<10>>
         ELSE Mnemonic[inst[1]] \o <<32>> \o UpperHex(inst[2]) \o <<10>>

RECURSIVE write_ast(_, _)
\* the loop of decompile over the AST
write_ast(l, ast) ==
    IF ast = <<>> THEN <<>>
    ELSE (IF l = "Assembly" THEN asm_line(Head(ast))
          ELSE Glyphs(l, decompiled_tokens(Head(ast))))
           \o write_ast(l, Tail(ast))

\* Decompiler::decompile of the language l
decompile(l, bytes) ==
    LET d == disassemble(bytes, 0, <<>>) IN
    IF d.err # "ok" THEN [err |-> d.err, ast |-> d.ast, val |-> <<>>]
    ELSE [err |-> "ok", ast |-> d.ast, val |-> write_ast(l, d.ast)]

-----------------------------------------------------------------------------
(* syntax/assembly.rs: Compiler::parse *)

\* Assembly::marker, but the labels seen are not looked up
marker_always_new(label, labels, count) ==
    [n |-> count, labels |-> insert(labels, label, count), count |-> count + 1]

\* Assembly::marker
marker(label, labels, count) ==
    IF label \in DOMAIN labels
    THEN [n |-> labels[label], labels |-> labels, count |-> count]
    ELSE [n |-> count, labels |-> insert(labels, label, count), count |-> count + 1]

\* the match on the mnemonic of a line: slice is the line without its LF
asm_inst(slice, labels, count) ==
    LET spaces   == { k \in 1..Len(slice) : slice[k] = 32 }
        n        == IF spaces = {} THEN Len(slice) + 1
                    ELSE CHOOSE k \in spaces : \A m \in spaces : k <= m
        mnemonic == SubSeq(slice, 1, n - 1)
        val      == SubSeq(slice, n + 1, Len(slice))
        kinds    == { k \in DOMAIN Mnemonic : Mnemonic[k] = mnemonic }
    IN  IF kinds = {} THEN Failed("InvalidInput", 0, labels, count)
        ELSE LET kind == CHOOSE k \in kinds : TRUE IN
             IF kind \in {"StackPush", "StackCopy", "StackSlide"}
             THEN IF from_str(val) = <<>> THEN Failed("InvalidInput", 0, labels, count)
                  ELSE Parsed(<<kind, from_str(val)[1]>>, 0, labels, count)
             ELSE IF kind \in {"Mark", "Call", "Jump", "JumpIfZero", "JumpIfNegative"}
             THEN LET m == marker(val, labels, count) IN
                  Parsed(<<kind, m.n>>, 0, m.labels, m.count)
             ELSE Parsed(<<kind>>, 0, labels, count)

RECURSIVE asm_loop(_, _, _, _)
\* the loop of Compiler::parse for Assembly: a line is read, empty lines and
\* lines that begin with ';' are skipped, the end of the text ends the loop;
\* ln is the line read, what follows it and what the match on it returns
\* (bound as the one element of a set, so that it is evaluated once)
asm_loop(text, labels, count, output) ==
    IF text = <<>> THEN [err |-> "ok", ast |-> output]
    ELSE CHOOSE res \in
           { IF ln.slice = <<>> \/ ln.slice[1] = 59
             THEN asm_loop(ln.rest, labels, count, output)
             ELSE IF ln.r.err # "ok" THEN [err |-> ln.r.err, ast |-> output]
             ELSE asm_loop(ln.rest, ln.r.labels, ln.r.count, Append(output, ln.r.inst)) :
             ln \in { [rest  |-> SubSeq(text, k + 1, Len(text)),
                       slice |-> strip_lf(SubSeq(text, 1, k)),
                       r     |-> asm_inst(strip_lf(SubSeq(text, 1, k)), labels, count)] :
                      k \in { line_len(text) } } } : TRUE

-----------------------------------------------------------------------------
(* syntax/brainfuck.rs: Scan, Tokens and Parser::parse.  syntax/ook.rs hands *)
(* the same tokens to the same Parser.                                       *)

BF_FAIL_MARKER == -1
BF_PTR_ADDR    == -1

\* Scan::next and Tokens::next on one character: the eight command
\* characters give a token, any other character is skipped
bf_token(c) ==
    CASE c = 62 -> "MoveRight"
      [] c = 60 -> "MoveLeft"
      [] c = 43 -> "Increment"
      [] c = 45 -> "Decrement"
      [] c = 44 -> "Get"
      [] c = 46 -> "Put"
      [] c = 91 -> "LoopStart"
      [] c = 93 -> "LoopEnd"
      [] OTHER  -> "Skip"

\* the tokens of a text
bf_tokens(text) ==
    SelectSeq([k \in 1..Len(text) |-> bf_token(text[k])], LAMBDA t : t # "Skip")

\* the arm of MoveRight, but the address is duplicated once more
MoveRightKeepsCopy ==
    << <<"StackPush", BF_PTR_ADDR>>, <<"StackDuplicate">>, <<"StackDuplicate">>,
       <<"HeapRetrieve">>, <<"StackPush", 1>>, <<"Addition">>, <<"HeapStore">> >>

\* the arm of MoveRight
MoveRight ==
    << <<"StackPush", BF_PTR_ADDR>>, <<"StackDuplicate">>, <<"HeapRetrieve">>,
       <<"StackPush", 1>>, <<"Addition">>, <<"HeapStore">> >>

\* the arm of MoveLeft
MoveLeft ==
    << <<"StackPush", BF_PTR_ADDR>>, <<"StackDuplicate">>, <<"HeapRetrieve">>,
       <<"StackPush", 1>>, <<"Subtraction">>, <<"StackDuplicate">>,
       <<"JumpIfNegative", BF_FAIL_MARKER>>, <<"HeapStore">> >>

\* the arm of Increment, but 2 is added
IncrementByTwo ==
    << <<"StackPush", BF_PTR_ADDR>>, <<"HeapRetrieve">>, <<"StackDuplicate">>,
       <<"HeapRetrieve">>, <<"StackPush", 2>>, <<"Addition">>, <<"HeapStore">> >>

\* the arm of Increment
Increment ==
    << <<"StackPush", BF_PTR_ADDR>>, <<"HeapRetrieve">>, <<"StackDuplicate">>,
       <<"HeapRetrieve">>, <<"StackPush", 1>>, <<"Addition">>, <<"HeapStore">> >>

\* the arm of Decrement
Decrement ==
    << <<"StackPush", BF_PTR_ADDR>>, <<"HeapRetrieve">>, <<"StackDuplicate">>,
       <<"HeapRetrieve">>, <<"StackPush", 1>>, <<"Subtraction">>, <<"HeapStore">> >>

\* the arm of Get
Get ==
    << <<"StackPush", BF_PTR_ADDR>>, <<"HeapRetrieve">>, <<"HeapRetrieve">>,
       <<"GetCharactor">> >>

\* the arm of Put, but the data pointer is written instead of the cell
PutWritesPointer ==
    << <<"StackPush", BF_PTR_ADDR>>, <<"HeapRetrieve">>, <<"PutCharactor">> >>

\* the arm of Put
Put ==
    << <<"StackPush", BF_PTR_ADDR>>, <<"HeapRetrieve">>, <<"HeapRetrieve">>,
       <<"PutCharactor">> >>

\* the closure marker of Parser::parse: label is <<"{}#", l>> for the text
\* format!("{}#", l) and <<"#{}", l>> for the text format!("#{}", l)
bf_marker(label, labels, count) ==
    IF label \in DOMAIN labels
    THEN [n |-> labels[label], labels |-> labels, count |-> count]
    ELSE [n |-> count, labels |-> insert(labels, label, count), count |-> count + 1]

\* the arm of LoopStart, but the loop is left when the cell is negative
LoopStartTestsNegative(st) ==
    LET l  == st.lcount
        m1 == bf_marker(<<"{}#", l>>, st.labels, st.count)
        m2 == bf_marker(<<"#{}", l>>, m1.labels, m1.count)
    IN  [err    |-> "ok",
         stack  |-> Append(st.stack, l),
         lcount |-> l + 1,
         labels |-> m2.labels,
         count  |-> m2.count,
         output |-> st.output \o
                      << <<"Mark", m1.n>>, <<"StackPush", BF_PTR_ADDR>>, <<"HeapRetrieve">>,
                         <<"HeapRetrieve">>, <<"JumpIfNegative", m2.n>> >>]

\* the arm of LoopStart
LoopStart(st) ==
    LET l  == st.lcount
        m1 == bf_marker(<<"{}#", l>>, st.labels, st.count)
        m2 == bf_marker(<<"#{}", l>>, m1.labels, m1.count)
    IN  [err    |-> "ok",
         stack  |-> Append(st.stack, l),
         lcount |-> l + 1,
         labels |-> m2.labels,
         count  |-> m2.count,
         output |-> st.output \o
                      << <<"Mark", m1.n>>, <<"StackPush", BF_PTR_ADDR>>, <<"HeapRetrieve">>,
                         <<"HeapRetrieve">>, <<"JumpIfZero", m2.n>> >>]

\* the arm of LoopEnd, but a LoopEnd without its LoopStart is passed over
LoopEndTolerant(st) ==
    IF st.stack = <<>> THEN st
    ELSE LET l  == Top(st.stack)
             m1 == bf_marker(<<"{}#", l>>, st.labels, st.count)
             m2 == bf_marker(<<"#{}", l>>, m1.labels, m1.count)
         IN  [st EXCEPT !.stack = Pop(st.stack), !.labels = m2.labels, !.count = m2.count,
                        !.output = st.output \o << <<"Jump", m1.n>>, <<"Mark", m2.n>> >>]

\* the arm of LoopEnd, but the loop opened first is closed
LoopEndOldest(st) ==
    IF st.stack = <<>> THEN [st EXCEPT !.err = "InvalidInput"]
    ELSE LET l  == Head(st.stack)
             m1 == bf_marker(<<"{}#", l>>, st.labels, st.count)
             m2 == bf_marker(<<"#{}", l>>, m1.labels, m1.count)
         IN  [st EXCEPT !.stack = Tail(st.stack), !.labels = m2.labels, !.count = m2.count,
                        !.output = st.output \o << <<"Jump", m1.n>>, <<"Mark", m2.n>> >>]

\* the arm of LoopEnd
LoopEnd(st) ==
    IF st.stack = <<>> THEN [st EXCEPT !.err = "InvalidInput"]
    ELSE LET l  == Top(st.stack)
             m1 == bf_marker(<<"{}#", l>>, st.labels, st.count)
             m2 == bf_marker(<<"#{}", l>>, m1.labels, m1.count)
         IN  [st EXCEPT !.stack = Pop(st.stack), !.labels = m2.labels, !.count = m2.count,
                        !.output = st.output \o << <<"Jump", m1.n>>, <<"Mark", m2.n>> >>]

\* the match of Parser::parse on one token: st is the parser (stack, lcount),
\* the locals of parse (labels, count) and the output
bf_arm(tok, st) ==
    CASE tok = "MoveRight" -> [st EXCEPT !.output = st.output \o MoveRight]
      [] tok = "MoveLeft"  -> [st EXCEPT !.output = st.output \o MoveLeft]
      [] tok = "Increment" -> [st EXCEPT !.output = st.output \o Increment]
      [] tok = "Decrement" -> [st EXCEPT !.output = st.output \o Decrement]
      [] tok = "Get"       -> [st EXCEPT !.output = st.output \o Get]
      [] tok = "Put"       -> [st EXCEPT !.output = st.output \o Put]
      [] tok = "LoopStart" -> LoopStart(st)
      [] tok = "LoopEnd"   -> LoopEnd(st)

\* what parse pushes after the loop
bf_trailer == << <<"Exit">>, <<"Mark", BF_FAIL_MARKER>> >>

RECURSIVE bf_loop(_, _, _, _)
\* the loop of Parser::parse over the tokens lo .. hi, from the parser st on:
\* the tokens are matched in order until one returns Err (the tokens are
\* taken half by half, which keeps the evaluation shallow; the parser a half
\* starts from is bound as the one element of a set, so that it is evaluated
\* once)
bf_loop(toks, lo, hi, st) ==
    CHOOSE res \in
      { IF b.lo > b.hi \/ b.st.err # "ok" THEN b.st
        ELSE IF b.lo = b.hi THEN bf_arm(toks[b.lo], b.st)
        ELSE CHOOSE res2 \in
               { bf_loop(toks, b.mid + 1, b.hi, s1) :
                 s1 \in { bf_loop(toks, b.lo, b.mid, b.st) } } : TRUE :
        b \in { [lo |-> lo, hi |-> hi, mid |-> (lo + hi) \div 2, st |-> st] } } : TRUE

\* Parser::new and Parser::parse: the loop over the tokens, and after it the
\* two pushes that an Err does not reach
bf_parse(toks) ==
    CHOOSE res \in
      { IF st.err # "ok" THEN [err |-> st.err, ast |-> st.output]
        ELSE [err |-> "ok", ast |-> st.output \o bf_trailer] :
        st \in { bf_loop(toks, 1, Len(toks),
                          [err |-> "ok", stack |-> <<>>, lcount |-> 1, labels |-> EmptyMap,
                           count |-> 1, output |-> <<>>]) } } : TRUE

\* Compiler::parse of the language l
parse(l, text) ==
    CASE l = "Whitespace" -> Parser_parse(ws_tokens(text))
      [] l = "DT"         -> Parser_parse(dt_tokens(text, 1))
      [] l = "Assembly"   -> asm_loop(text, EmptyMap, 1, <<>>)
      [] l = "Brainfuck"  -> bf_parse(bf_tokens(text))

\* Compiler::compile of the language l: parse, then write every instruction
compile(l, text) ==
    LET r == parse(l, text) IN
    IF r.err # "ok" THEN [err |-> r.err, ast |-> r.ast, val |-> <<>>]
    ELSE [err |-> "ok", ast |-> r.ast, val |-> assemble(r.ast)]

-----------------------------------------------------------------------------
(* Texts compiled, decompiled and compiled again; streams decompiled,        *)
(* compiled and decompiled again                                             *)

Langs == {"Whitespace", "DT", "Assembly"}

FlowKinds == <<"Mark", "Call", "Jump", "JumpIfZero", "JumpIfNegative">>

NumberKinds == {"StackPush", "StackCopy", "StackSlide"}

\* the labels of a source text: bit strings, among them the empty one and two
\* of the same numeric value, and for Assembly the names "1", "2" and "loop"
LabelLits(l) ==
    IF l = "Assembly" THEN { <<49>>, <<50>>, <<108, 111, 111, 112>> }
    ELSE { <<>>, <<"Tab">>, <<"Space", "Tab">> }

\* the numbers of a source text: +1, -10, -0 and +011 in bits, and for
\* Assembly "1", "-1", "0" and "1000"
NumberLits(l) ==
    IF l = "Assembly" THEN { <<49>>, <<45, 49>>, <<48>>, <<49, 48, 48, 48>> }
    ELSE { <<"Space", "Tab">>, <<"Tab", "Tab", "Space">>, <<"Tab", "Space">>,
           <<"Space", "Space", "Tab", "Tab">> }

\* flow instructions with the operands ls, of kinds taken in turn from the r-th on
FlowSeq(ls, r) == [i \in 1..Len(ls) |-> <<FlowKinds[((i + r) % 5) + 1], ls[i]>>]

\* the instructions of a source text, each with its operand as it is written
SourcePrograms(l) ==
    { FlowSeq(ls, r) : ls \in SeqsUpTo(LabelLits(l), MaxSrcLen), r \in 0..4 }
      \cup { << <<k>> >> : k \in PlainKinds }
      \cup { << <<k, n>> >> : k \in NumberKinds, n \in NumberLits(l) }

\* the text of one instruction of a source
SourceInst(l, inst) ==
    IF l = "Assembly"
    THEN IF Len(inst) = 1 THEN Mnemonic[inst[1]] \o <<10>>
         ELSE Mnemonic[inst[1]] \o <<32>> \o inst[2] \o <<10>>
    ELSE IF Len(inst) = 1 THEN Glyphs(l, inst_tokens[inst[1]])
         ELSE Glyphs(l, inst_tokens[inst[1]] \o inst[2] \o <<"LF">>)

RECURSIVE SourceText(_, _)
SourceText(l, src) ==
    IF src = <<>> THEN <<>> ELSE SourceInst(l, Head(src)) \o SourceText(l, Tail(src))

\* the label operands of a stream that no compiler has written
StreamLabels == {1, 2, 15, -1}

\* the operands of a stream of one instruction
StreamOperands == {-258, -1, 0, 1, 2, 15}

\* the instructions of assembly.rs test_generate
TestGenerate ==
    << <<"StackPush", 1>>, <<"StackDuplicate">>, <<"StackCopy", 2>>, <<"StackSwap">>,
       <<"StackDiscard">>, <<"StackSlide", 3>>, <<"Addition">>, <<"Subtraction">>,
       <<"Multiplication">>, <<"Division">>, <<"Modulo">>, <<"HeapStore">>,
       <<"HeapRetrieve">>, <<"Mark", 1>>, <<"Call", 15>>, <<"Jump", 2>>,
       <<"JumpIfZero", 16>>, <<"JumpIfNegative", 32>>, <<"Return">>, <<"Exit">>,
       <<"PutCharactor">>, <<"PutNumber">>, <<"GetCharactor">>, <<"GetNumber">> >>

\* the instructions of a stream given to the decompiler of the language l;
\* those of test_generate are given to the Assembly decompiler, as in the test
StreamPrograms(l) ==
    { FlowSeq(ls, r) : ls \in SeqsUpTo(StreamLabels, MaxSrcLen), r \in 0..4 }
      \cup { << <<k>> >> : k \in PlainKinds }
      \cup { << <<k, n>> >> : k \in OperandKinds, n \in StreamOperands }
      \cup (IF l = "Assembly" THEN { TestGenerate } ELSE {})

\* a text to compile, or a stream to decompile: a whole one, or one that has
\* lost up to MaxCut bytes of its last operand
InitSyntax ==
    /\ lang \in Langs
    /\ \/ /\ insts \in SourcePrograms(lang)
          /\ chain = << [kind |-> "text", err |-> "ok", ast |-> <<>>,
                         val |-> SourceText(lang, insts)] >>
       \/ /\ insts \in StreamPrograms(lang)
          /\ chain = << [kind |-> "bytecode", err |-> "ok", ast |-> <<>>,
                         val |-> assemble(insts)] >>
       \/ /\ insts \in StreamPrograms(lang)
          /\ insts # <<>>
          /\ Len(insts[Len(insts)]) = 2
          /\ \E c \in 1..MaxCut :
               chain = << [kind |-> "bytecode", err |-> "ok", ast |-> <<>>,
                           val |-> SubSeq(assemble(insts), 1,
                                          Len(assemble(insts)) - c)] >>
    /\ program = <<>>
    /\ pos = 0
    /\ stack = <<>>
    /\ heap = EmptyMap
    /\ index = EmptyMap
    /\ caller = <<>>
    /\ stdin = <<>>
    /\ stdout = <<>>
    /\ status = "syntax"
    /\ last = <<>>
    /\ out = <<>>
    /\ runs = 0

\* Compiler::compile on the text last returned
Compile ==
    /\ status = "syntax"
    /\ Len(chain) < MaxChain
    /\ chain[Len(chain)].kind = "text"
    /\ chain[Len(chain)].err = "ok"
    /\ chain' = Append(chain, [kind |-> "bytecode"] @@ compile(lang, chain[Len(chain)].val))
    /\ UNCHANGED <<lang, runs, insts, program, pos, stack, heap, index, caller, stdin,
                   stdout, status, last, out>>

\* Decompiler::decompile on the stream last returned
Decompile ==
    /\ status = "syntax"
    /\ Len(chain) < MaxChain
    /\ chain[Len(chain)].kind = "bytecode"
    /\ chain[Len(chain)].err = "ok"
    /\ chain' = Append(chain, [kind |-> "text"] @@ decompile(lang, chain[Len(chain)].val))
    /\ UNCHANGED <<lang, runs, insts, program, pos, stack, heap, index, caller, stdin,
                   stdout, status, last, out>>

NextSyntax == Compile \/ Decompile

SpecSyntax == InitSyntax /\ [][NextSyntax]_vars

-----------------------------------------------------------------------------
(* Any sequence of Space, Tab and LF given to the Whitespace parser           *)

\* a Whitespace text of up to MaxTokLen significant characters
InitTokens ==
    /\ lang = "Whitespace"
    /\ insts = <<>>
    /\ \E text \in SeqsUpTo({32, 9, 10}, MaxTokLen) :
         chain = << [kind |-> "text", err |-> "ok", ast |-> <<>>, val |-> text] >>
    /\ program = <<>>
    /\ pos = 0
    /\ stack = <<>>
    /\ heap = EmptyMap
    /\ index = EmptyMap
    /\ caller = <<>>
    /\ stdin = <<>>
    /\ stdout = <<>>
    /\ status = "syntax"
    /\ last = <<>>
    /\ out = <<>>
    /\ runs = 0

\* the text is compiled once
CompileTokens == Len(chain) = 1 /\ Compile

NextTokens == CompileTokens

SpecTokens == InitTokens /\ [][NextTokens]_vars

-----------------------------------------------------------------------------
(* Texts given to the scanner of DT                                          *)

\* the pieces of a DT text: the three graphemes, a character of none of them
\* (a line feed, as in test_scan), and the first 1, 2 and 7 characters of T
Piece ==
    ("S" :> DT_S) @@ ("T" :> DT_T) @@ ("N" :> DT_N) @@ ("x" :> <<10>>) @@
    ("T1" :> SubSeq(DT_T, 1, 1)) @@ ("T2" :> SubSeq(DT_T, 1, 2)) @@
    ("T7" :> SubSeq(DT_T, 1, 7))

RECURSIVE PieceText(_)
PieceText(ps) == IF ps = <<>> THEN <<>> ELSE Piece[Head(ps)[1]] \o PieceText(Tail(ps))

\* a text of up to MaxPieces pieces
InitScan ==
    /\ lang = "DT"
    /\ insts \in SeqsUpTo({ <<k>> : k \in DOMAIN Piece }, MaxPieces)
    /\ chain = << [kind |-> "text", err |-> "ok", ast |-> <<>>, val |-> PieceText(insts)] >>
    /\ program = <<>>
    /\ pos = 0
    /\ stack = <<>>
    /\ heap = EmptyMap
    /\ index = EmptyMap
    /\ caller = <<>>
    /\ stdin = <<>>
    /\ stdout = <<>>
    /\ status = "scan"
    /\ last = <<>>
    /\ out = <<>>
    /\ runs = 0

\* Tokens::next of dt.rs until it returns None or an error: out is what it returned
ScanText ==
    /\ status = "scan"
    /\ out' = dt_tokens(chain[1].val, 1)
    /\ status' = "scanned"
    /\ UNCHANGED <<lang, chain, runs, insts, program, pos, stack, heap, index, caller,
                   stdin, stdout, last>>

NextScan == ScanText

SpecScan == InitScan /\ [][NextScan]_vars

-----------------------------------------------------------------------------
(* Brainfuck texts compiled and run on a fresh machine                       *)

\* the characters of the texts: the eight commands and a letter
BfChars == {62, 60, 43, 45, 44, 46, 91, 93, 97}

\* n times '+', then '.'
PlusPut(n) == [k \in 1..(n + 1) |-> IF k <= n THEN 43 ELSE 46]

\* n '+' and the loop "[-]"
PlusLoop(n) == [k \in 1..(n + 3) |-> IF k <= n THEN 43 ELSE <<91, 45, 93>>[k - n]]

\* the numbers of '+' of the long texts: the one that writes 'A', and the
\* last character of one byte
LongPlus == {65, 127}

\* every text of up to MaxBfLen characters, up to MaxPlus '+', or one of the
\* numbers of LongPlus, before a '.', every text of up to MaxBrackets
\* brackets, and up to MaxPlus '+' before the loop "[-]"
BfTexts ==
    SeqsUpTo(BfChars, MaxBfLen) \cup { PlusPut(n) : n \in (0..MaxPlus) \cup LongPlus }
      \cup SeqsUpTo({91, 93}, MaxBrackets) \cup { PlusLoop(n) : n \in 0..MaxPlus }

\* the characters a machine whose program reads is given
BfInput == <<3, 5>>

\* what the machine is given to read
BfInputs(text) ==
    IF \E k \in 1..Len(text) : text[k] = 44 THEN { <<>>, BfInput } ELSE { <<>> }

InitBF ==
    /\ lang = "Brainfuck"
    /\ \E text \in BfTexts :
         /\ chain = << [kind |-> "text", err |-> "ok", ast |-> <<>>, val |-> text] >>
         /\ stdin \in BfInputs(text)
    /\ insts = <<>>
    /\ program = <<>>
    /\ pos = 0
    /\ stack = <<>>
    /\ heap = EmptyMap
    /\ index = EmptyMap
    /\ caller = <<>>
    /\ stdout = <<>>
    /\ status = "source"
    /\ last = <<>>
    /\ out = <<>>
    /\ runs = 0

\* Compiler::compile on the text, and Machine::run on what it wrote if it
\* returned Ok
CompileBF ==
    /\ status = "source"
    /\ chain' = Append(chain, [kind |-> "bytecode"] @@ compile(lang, chain[1].val))
    /\ insts' = chain'[2].ast
    /\ program' = chain'[2].val
    /\ status' = IF chain'[2].err = "ok" THEN "running" ELSE "rejected"
    /\ runs' = IF chain'[2].err = "ok" THEN 1 ELSE 0
    /\ UNCHANGED <<lang, pos, stack, heap, index, caller, stdin, stdout, last, out>>

\* the runs followed: no cell and no pointer beyond MaxCell, no more than
\* MaxBfLen characters written (loops that count or write without end)
BfBounded ==
    /\ \A a \in DOMAIN heap : heap[a] \in -MaxCell..MaxCell
    /\ Len(stdout) <= MaxBfLen

\* the compilation, then step for the opcodes the parser emits
NextBF ==
    \/ CompileBF
    \/ BfBounded /\ StepPush
    \/ BfBounded /\ StepDup
    \/ BfBounded /\ StepAdd
    \/ BfBounded /\ StepSub
    \/ BfBounded /\ StepStore
    \/ BfBounded /\ StepRetrieve
    \/ BfBounded /\ StepMark
    \/ BfBounded /\ StepJump
    \/ BfBounded /\ StepJumpZ
    \/ BfBounded /\ StepJumpN
    \/ BfBounded /\ StepExit
    \/ BfBounded /\ StepPutChar
    \/ BfBounded /\ StepGetChar
    \/ BfBounded /\ StepEndOfFile

SpecBF == InitBF /\ [][NextBF]_vars

\* Machine::run calls step until it returns Ok(false) or Err: a run that can
\* take a step takes it
FairBF == SpecBF /\ WF_vars(NextBF)

-----------------------------------------------------------------------------
(* The writer's view of the stream, used to state the properties *)

\* the reader was given exactly what the writer wrote
Intact == program = assemble(insts)

\* the offset after the i-th instruction written
EndOff(i) == Len(assemble(SubSeq(insts, 1, i)))

\* the reader stands at the beginning of an instruction that was written
AtInst == \E i \in 1..Len(insts) : EndOff(i - 1) = pos

\* the number of the instruction written at the reader's offset
Cur == CHOOSE i \in 1..Len(insts) : EndOff(i - 1) = pos

\* a step of a run is about to dispatch an instruction that was written
Stepping == status = "running" /\ Intact /\ AtInst

\* the instruction to dispatch transfers control: Jump, Call, or a conditional
\* jump whose condition the top of the stack fulfils
Jumping ==
    /\ Stepping
    /\ \/ insts[Cur][1] \in {"Jump", "Call"}
       \/ insts[Cur][1] = "JumpIfZero" /\ stack # <<>> /\ Top(stack) = 0
       \/ insts[Cur][1] = "JumpIfNegative" /\ stack # <<>> /\ Top(stack) < 0

\* the Marks of label l written as instructions i+1 .. j
MarksOf(l, i, j) == { k \in (i + 1)..j : insts[k][1] = "Mark" /\ insts[k][2] = l }

Max(S) == CHOOSE m \in S : \A n \in S : n <= m
Min(S) == CHOOSE m \in S : \A n \in S : m <= n

\* the index after every Mark among the instructions i+1 .. j has been inserted
IndexAfterMarks(idx, i, j) ==
    LET passed == { insts[k][2] : k \in { m \in (i + 1)..j : insts[m][1] = "Mark" } }
    IN  [ l \in (DOMAIN idx) \cup passed |->
            IF MarksOf(l, i, j) # {} THEN EndOff(Max(MarksOf(l, i, j))) ELSE idx[l] ]

-----------------------------------------------------------------------------
\* C1: a Jump, a Call or a taken conditional jump to an indexed label moves the
\* reader to the stored offset and leaves the index alone; to a label that is
\* not indexed but marked further on, it moves the reader to the offset right
\* after the first such Mark and inserts that Mark and every Mark passed on
\* the way into the index.
C1_JumpResolvesLabel ==
    [][ Jumping =>
          LET id == insts[Cur][2] IN
          IF id \in DOMAIN index
          THEN pos' = index[id] /\ index' = index /\ status' = "running"
          ELSE MarksOf(id, Cur, Len(insts)) # {} =>
                 LET j == Min(MarksOf(id, Cur, Len(insts))) IN
                 /\ pos' = EndOff(j)
                 /\ index' = IndexAfterMarks(index, Cur, j)
                 /\ status' = "running" ]_vars

\* a Jump has just scanned forward over other Marks to its own
C1_Witness ==
    /\ status = "running" /\ Intact
    /\ Len(last) = 3 /\ last[2] = CMD_JUMP
    /\ Cardinality(DOMAIN index) >= 3
    /\ \A l \in DOMAIN index : index[l] > last[1]
    /\ pos = index[last[3]]

\* C2: Call pushes the offset of the record after the Call onto the call stack
\* and jumps; Return pops the most recent offset and resumes there; a program
\* whose Calls are all matched by Returns halts with an empty call stack
\* (CallReturn prints "10"; in NestedCalls the inner subroutine returns first).
C2_CallReturn ==
    [][ /\ (Stepping /\ insts[Cur][1] = "Call") =>
              caller' = Append(caller, EndOff(Cur))
        /\ (Stepping /\ insts[Cur][1] = "Return" /\ caller # <<>>) =>
              /\ pos' = caller[Len(caller)]
              /\ caller' = SubSeq(caller, 1, Len(caller) - 1)
              /\ status' = "running"
        /\ (insts = CallReturn /\ Intact /\ status' # "running") =>
              (status' = "halted" /\ caller' = <<>> /\ stdout' = <<49, 48>>)
        /\ (insts = NestedCalls /\ Intact /\ status' # "running") =>
              (status' = "halted" /\ caller' = <<>> /\ stdout' = <<50, 49, 48>>) ]_vars

\* the nested subroutines have both returned and the program has halted
C2_Witness ==
    /\ insts = NestedCalls /\ Intact
    /\ status = "halted" /\ caller = <<>> /\ stdout = <<50, 49, 48>>

\* C3: a step that finds the reader at the end of the stream fails with
\* MissingExitInstruction, and a run halts successfully only in a step that
\* read an Exit record.
C3_MissingExit ==
    [][ /\ (status = "running" /\ pos >= Len(program)) =>
              status' = "MissingExitInstruction"
        /\ status' = "halted" =>
              (status = "running" /\ pos < Len(program) /\ program[pos + 1] = CMD_EXIT) ]_vars

\* a program that executed instructions and then ran off its end
C3_Witness ==
    /\ status = "MissingExitInstruction" /\ Intact
    /\ Len(last) = 3 /\ last[1] = Len(program) /\ last[1] > 0

\* C4: a Jump, a Call or a taken conditional jump to a label that is not in
\* the index and that no Mark after the jump declares fails with UndefinedLabel.
C4_UndefinedLabel ==
    [][ (/\ Jumping
         /\ insts[Cur][2] \notin DOMAIN index
         /\ MarksOf(insts[Cur][2], Cur, Len(insts)) = {})
        => status' = "UndefinedLabel" ]_vars

\* a jump failed although other labels had been indexed
C4_Witness ==
    /\ status = "UndefinedLabel" /\ Intact
    /\ Len(last) = 3 /\ last[2] \in {CMD_JUMP, CMD_CALL, CMD_JUMPZ, CMD_JUMPN}
    /\ DOMAIN index # {}
    /\ last[3] \notin DOMAIN index

\* C5: in a stream that holds what the writer wrote, the instructions
\* disassemble() has yielded are the instructions written, in order, each read
\* to the end of its record, with operand 0 reported for an opcode without
\* operand; the end of the stream is reported after the last of them and
\* nothing is rejected.
C5_RoundTrip ==
    Intact =>
      /\ Len(out) <= Len(insts)
      /\ out = SubSeq(insts, 1, Len(out))
      /\ status # "InvalidInput"
      /\ status = "end" => (out = insts /\ pos = Len(program))
      /\ status = "disassembling" =>
           /\ pos = EndOff(Len(out))
           /\ Len(out) > 0 =>
                /\ Len(last) = 3
                /\ last[3] = IF Len(insts[Len(out)]) = 2 THEN insts[Len(out)][2] ELSE 0

\* a negative operand and an instruction without operand were written, read
\* back, and the end of the stream was reported
C5_Witness ==
    /\ status = "end" /\ Intact
    /\ out = << <<"StackPush", -1>>, <<"StackDuplicate">> >>

\* Div or Mod is about to be executed with 0 on top of the stack
DivByZero ==
    /\ Stepping
    /\ insts[Cur][1] \in {"Division", "Modulo"}
    /\ stack # <<>>
    /\ stack[Len(stack)] = 0

\* C6 as claimed: Div or Mod with 0 on top of the stack fails with
\* ZeroDivision and leaves the stack as it was before the instruction.
C6_StackUntouched ==
    [][ DivByZero => (status' = "ZeroDivision" /\ stack' = stack) ]_vars

\* C6 as amended: Div or Mod with 0 on top of the stack fails with
\* ZeroDivision, and the stack it leaves is the stack before the instruction
\* without its top element: the divisor has been popped and nothing else.
C6_DivisorPopped ==
    [][ DivByZero =>
          /\ status' = "ZeroDivision"
          /\ stack' = SubSeq(stack, 1, Len(stack) - 1) ]_vars

\* a division by zero has failed and left the stack without the divisor
C6_Witness ==
    /\ status = "ZeroDivision" /\ Intact
    /\ Len(last) = 3 /\ last[2] = CMD_MOD
    /\ stack # <<>>

\* C7: Div or Mod with divisor 0 on a stack of at least two elements fails
\* with ZeroDivision, and the dividend and every element below it are still
\* on the stack, at their places.
C7_DividendRemains ==
    [][ (DivByZero /\ Len(stack) >= 2) =>
          /\ status' = "ZeroDivision"
          /\ Len(stack') >= Len(stack) - 1
          /\ \A i \in 1..(Len(stack) - 1) : stack'[i] = stack[i] ]_vars

\* a division by zero has failed with the dividend and an element below it left
C7_Witness ==
    /\ status = "ZeroDivision" /\ Intact
    /\ Len(last) = 3 /\ last[2] = CMD_DIV
    /\ Len(stack) >= 2 /\ stack[Len(stack)] # 0

\* q is y / x truncated toward zero: q * x is the multiple of x nearest to y
\* in the direction of zero
TruncQuot(q, y, x) == Abs(q * x) <= Abs(y) /\ Abs(y - q * x) < Abs(x)

\* C8: with x on top of y and, for Div and Mod, x # 0, an arithmetic
\* instruction succeeds and replaces both by y + x, y - x, y * x, the quotient
\* y / x truncated toward zero, or y - trunc(y / x) * x; everything below is
\* unchanged.  PUSH -7, PUSH 2, DIV, PUTN prints -3.
C8_Arithmetic ==
    [][ /\ ( /\ Stepping
             /\ insts[Cur][1] \in {"Addition", "Subtraction", "Multiplication", "Division", "Modulo"}
             /\ Len(stack) >= 2
             /\ insts[Cur][1] \in {"Division", "Modulo"} => stack[Len(stack)] # 0 )
           => LET x == stack[Len(stack)]
                  y == stack[Len(stack) - 1]
                  k == insts[Cur][1]
              IN  /\ status' = "running"
                  /\ Len(stack') = Len(stack) - 1
                  /\ \A i \in 1..(Len(stack) - 2) : stack'[i] = stack[i]
                  /\ LET r == stack'[Len(stack')] IN
                     CASE k = "Addition"       -> r = y + x
                       [] k = "Subtraction"    -> r = y - x
                       [] k = "Multiplication" -> r = y * x
                       [] k = "Division"       -> TruncQuot(r, y, x)
                       [] k = "Modulo"         ->
                            \E q \in (-Abs(y))..Abs(y) : TruncQuot(q, y, x) /\ r = y - q * x
        /\ (insts = DivTrunc /\ Intact /\ status' = "halted") => stdout' = <<45, 51>> ]_vars

\* -7 / 2 has been computed and printed as -3
C8_Witness ==
    /\ insts = DivTrunc /\ Intact
    /\ status = "halted" /\ stdout = <<45, 51>>

\* the instruction to dispatch needs more stack operands than the stack holds
Underflow ==
    /\ Stepping
    /\ \/ /\ insts[Cur][1] \in { "StackDuplicate", "StackDiscard", "HeapRetrieve",
                                 "PutCharactor", "PutNumber", "JumpIfZero",
                                 "JumpIfNegative", "GetCharactor", "GetNumber" }
          /\ Len(stack) < 1
       \/ /\ insts[Cur][1] \in { "StackSwap", "Addition", "Subtraction", "Multiplication",
                                 "Division", "Modulo", "HeapStore" }
          /\ Len(stack) < 2

\* the first line of stdin, without its LF, is a decimal number
DecimalLine ==
    LET ends == { i \in 1..Len(stdin) : stdin[i] = 10 }
        n    == IF ends = {} THEN Len(stdin) ELSE Min(ends) - 1
        from == IF n >= 1 /\ stdin[1] = 45 THEN 2 ELSE 1
    IN  /\ from <= n
        /\ \A i \in from..n : stdin[i] \in 48..57

\* C9 as claimed: an instruction that needs k stack operands fails with
\* IllegalStackManipulation whenever the stack holds fewer than k.
C9_AlwaysIllegalStack ==
    [][ Underflow => status' = "IllegalStackManipulation" ]_vars

\* C9 as amended: an instruction that needs k stack operands fails when the
\* stack holds fewer than k, with IllegalStackManipulation except in two
\* cases: Div and Mod on a stack holding only 0 fail with ZeroDivision, and
\* GetChar and GetNum on an empty stack fail with MachineIoError when stdin is
\* at its end or (GetNum) its line is not a decimal number.
C9_Underflow ==
    [][ Underflow =>
          status' =
            IF insts[Cur][1] \in {"Division", "Modulo"} /\ stack = <<0>>
              THEN "ZeroDivision"
            ELSE IF insts[Cur][1] \in {"GetCharactor", "GetNumber"} /\ stdin = <<>>
              THEN "MachineIoError(EndOfFile)"
            ELSE IF insts[Cur][1] = "GetNumber" /\ ~DecimalLine
              THEN "MachineIoError(InvalidInput)"
            ELSE "IllegalStackManipulation" ]_vars

\* GetChar has read a character and failed for want of an address on the stack
C9_Witness ==
    /\ status = "IllegalStackManipulation" /\ Intact
    /\ Len(last) = 3 /\ last[2] = CMD_GETC
    /\ last[1] = 0 /\ stack = <<>> /\ Len(stdin) = 4

\* C10 as claimed: Slide(k) succeeds when the stack holds at least k + 1
\* elements, then removing the k elements below the top and nothing else, and
\* fails with IllegalStackManipulation when it holds k elements or fewer.
C10_Slide ==
    [][ (Stepping /\ insts[Cur][1] = "StackSlide" /\ insts[Cur][2] >= 0) =>
          LET k == insts[Cur][2] IN
          IF Len(stack) >= k + 1
          THEN /\ status' = "running"
               /\ stack' = Append(SubSeq(stack, 1, Len(stack) - k - 1), stack[Len(stack)])
          ELSE status' = "IllegalStackManipulation" ]_vars

\* C11: Copy(k) with 0 <= k <= |stack| - 1 succeeds and leaves the stack it
\* found with a copy of the element k below the top appended; with k >= |stack|
\* it fails with IllegalStackManipulation and the stack is unchanged; Duplicate
\* does what Copy(0) does.
C11_Copy ==
    [][ /\ (Stepping /\ insts[Cur][1] = "StackCopy" /\ insts[Cur][2] >= 0) =>
             LET k == insts[Cur][2] IN
             IF k <= Len(stack) - 1
             THEN /\ status' = "running"
                  /\ stack' = Append(stack, stack[Len(stack) - k])
             ELSE /\ status' = "IllegalStackManipulation"
                  /\ stack' = stack
        /\ (Stepping /\ insts[Cur][1] = "StackDuplicate") =>
             IF stack # <<>>
             THEN /\ status' = "running"
                  /\ stack' = Append(stack, stack[Len(stack)])
             ELSE /\ status' = "IllegalStackManipulation"
                  /\ stack' = stack ]_vars

\* Copy(2) has copied the third element from the top over two different ones
C11_Witness ==
    /\ status = "running" /\ Intact
    /\ Len(last) = 3 /\ last[2] = CMD_COPY /\ last[3] = 2
    /\ Len(stack) = 4 /\ stack[4] = stack[1]
    /\ stack[2] # stack[3] /\ stack[1] # stack[3]

\* C12: Store with at least two elements pops the value and then the address
\* and maps the address to the value, leaving the other addresses alone;
\* Retrieve pops an address, of either sign, pushes the value the heap holds
\* for it, or 0 if none was stored, and leaves the heap alone.  After two
\* Stores to one address a Retrieve of that address gets the second value.
C12_Heap ==
    [][ /\ (Stepping /\ insts[Cur][1] = "HeapStore" /\ Len(stack) >= 2) =>
             LET val  == stack[Len(stack)]
                 addr == stack[Len(stack) - 1]
             IN  /\ status' = "running"
                 /\ stack' = SubSeq(stack, 1, Len(stack) - 2)
                 /\ DOMAIN heap' = (DOMAIN heap) \cup {addr}
                 /\ heap'[addr] = val
                 /\ \A k \in (DOMAIN heap) \ {addr} : heap'[k] = heap[k]
        /\ (Stepping /\ insts[Cur][1] = "HeapRetrieve" /\ Len(stack) >= 1) =>
             LET addr == stack[Len(stack)] IN
             /\ status' = "running"
             /\ heap' = heap
             /\ stack' = Append(SubSeq(stack, 1, Len(stack) - 1),
                                IF addr \in DOMAIN heap THEN heap[addr] ELSE 0)
        /\ (Stepping /\ insts \in HeapPrograms /\ insts[Cur][1] = "HeapRetrieve") =>
             stack' = << IF insts[7][2] = insts[1][2] THEN insts[5][2] ELSE 0 >> ]_vars

\* a negative address was stored to twice and the Retrieve got the second value
C12_Witness ==
    /\ insts \in HeapPrograms /\ Intact /\ status = "running"
    /\ Len(last) = 3 /\ last[2] = CMD_RETRIEVE
    /\ insts[1][2] < 0 /\ insts[7][2] = insts[1][2]
    /\ insts[2][2] # insts[5][2] /\ insts[5][2] # 0
    /\ stack = << insts[5][2] >>
    /\ heap[insts[1][2]] = insts[5][2]

RECURSIVE DecValue(_, _, _)
\* the number the decimal digits cs[from .. n] denote
DecValue(cs, from, n) ==
    IF n < from THEN 0 ELSE 10 * DecValue(cs, from, n - 1) + (cs[n] - 48)

\* the number the first line of stdin denotes, when it is a decimal number
LineValue ==
    LET ends == { i \in 1..Len(stdin) : stdin[i] = 10 }
        n    == IF ends = {} THEN Len(stdin) ELSE Min(ends) - 1
    IN  IF stdin[1] = 45 THEN -DecValue(stdin, 2, n) ELSE DecValue(stdin, 1, n)

\* the first line of stdin, its LF included
LineEnd ==
    LET ends == { i \in 1..Len(stdin) : stdin[i] = 10 }
    IN  IF ends = {} THEN Len(stdin) ELSE Min(ends)

\* C13: GetChar with a character to read, and GetNum with a decimal line to
\* read, on a stack whose top is an address, succeed, pop the address, leave
\* the rest of the stack as it was, and map the address to the character's
\* code or to the number of the line; no other address changes, and the
\* character or the line is consumed.
C13_ReadStores ==
    [][ /\ (Stepping /\ insts[Cur][1] = "GetCharactor" /\ stack # <<>> /\ stdin # <<>>) =>
             LET addr == stack[Len(stack)] IN
             /\ status' = "running"
             /\ stack' = SubSeq(stack, 1, Len(stack) - 1)
             /\ DOMAIN heap' = (DOMAIN heap) \cup {addr}
             /\ heap'[addr] = stdin[1]
             /\ \A k \in (DOMAIN heap) \ {addr} : heap'[k] = heap[k]
             /\ stdin' = SubSeq(stdin, 2, Len(stdin))
        /\ (Stepping /\ insts[Cur][1] = "GetNumber" /\ stack # <<>> /\ DecimalLine) =>
             LET addr == stack[Len(stack)] IN
             /\ status' = "running"
             /\ stack' = SubSeq(stack, 1, Len(stack) - 1)
             /\ DOMAIN heap' = (DOMAIN heap) \cup {addr}
             /\ heap'[addr] = LineValue
             /\ \A k \in (DOMAIN heap) \ {addr} : heap'[k] = heap[k]
             /\ stdin' = SubSeq(stdin, LineEnd + 1, Len(stdin)) ]_vars

\* test_io: 'W' was stored at address 1 and the line "123" at address 2
C13_Witness ==
    /\ insts = TestIo /\ Intact /\ status = "running"
    /\ Len(last) = 3 /\ last[2] = CMD_GETN
    /\ heap = [a \in {1, 2} |-> IF a = 1 THEN 87 ELSE 123]
    /\ stack = <<5, 66>>

\* C14 as claimed: PutChar on a non-empty stack pops x; with x < 0 it fails
\* with IllegalStackManipulation and writes nothing; with any x >= 0 it
\* succeeds and appends to stdout the one character whose code is the low
\* 8 bits of x.
C14_PutChar ==
    [][ (Stepping /\ insts[Cur][1] = "PutCharactor" /\ stack # <<>>) =>
          LET x == stack[Len(stack)] IN
          /\ stack' = SubSeq(stack, 1, Len(stack) - 1)
          /\ IF x < 0
             THEN status' = "IllegalStackManipulation" /\ stdout' = stdout
             ELSE status' = "running" /\ stdout' = stdout \o char_bytes(x % 256) ]_vars

\* C15 as claimed: whenever a call of run is about to execute its first step,
\* the first call or a later one on the same Machine, the stack, the heap,
\* the call stack and the label index are empty.
C15_RunStartsFresh ==
    (status = "running" /\ last = <<>>) =>
      /\ stack = <<>>
      /\ heap = EmptyMap
      /\ caller = <<>>
      /\ index = EmptyMap

\* C16: no step of a run, whatever instruction it executes and whether or not
\* it scans forward, removes a label from the index: every label in the index
\* before the step is in the index after it.
C16_IndexGrows ==
    [][ (DOMAIN index) \subseteq (DOMAIN index') ]_vars

\* test_flow has run to its Exit with all four of its labels in the index,
\* some entered by Mark instructions and some by forward scans
C16_Witness ==
    /\ insts = TestFlow /\ Intact
    /\ status = "halted"
    /\ DOMAIN index = {1, 2, 3, 4}

\* the instructions of the source that name a label
FlowAt(i) == insts[i][1] \in {"Mark", "Call", "Jump", "JumpIfZero", "JumpIfNegative"}

\* the number of distinct labels the source names before the first place where
\* it names the label of instruction i, plus one
OrdinalOfLabel(i) ==
    LET first == Min({ j \in 1..i : FlowAt(j) /\ insts[j][2] = insts[i][2] })
    IN  Cardinality({ insts[j][2] : j \in { m \in 1..(first - 1) : FlowAt(m) } }) + 1

\* C17: when a Whitespace, DT or Assembly text is parsed, every instruction
\* that names a label gets as operand the ordinal of that label among the
\* distinct labels of the text in the order of their first occurrence,
\* counted from 1 over Mark, Call, Jump, JumpIfZero and JumpIfNegative
\* together: equal labels get equal ids and different labels different ids.
C17_LabelInterning ==
    (status = "syntax" /\ chain[1].kind = "text" /\ Len(chain) >= 2) =>
      /\ chain[2].err = "ok"
      /\ Len(chain[2].ast) = Len(insts)
      /\ \A i \in 1..Len(insts) :
           /\ chain[2].ast[i][1] = insts[i][1]
           /\ FlowAt(i) => chain[2].ast[i][2] = OrdinalOfLabel(i)
      /\ \A i, j \in 1..Len(insts) :
           (FlowAt(i) /\ FlowAt(j)) =>
             ((chain[2].ast[i][2] = chain[2].ast[j][2]) <=> (insts[i][2] = insts[j][2]))

\* a DT text that names a label, a second one and the first again was parsed:
\* the ids are 1, 2 and 1, whatever the kinds of the instructions
C17_Witness ==
    /\ status = "syntax" /\ chain[1].kind = "text" /\ Len(chain) >= 2
    /\ Len(insts) = 3 /\ \A i \in 1..3 : FlowAt(i)
    /\ insts[1][2] # insts[2][2] /\ insts[3][2] = insts[1][2]
    /\ insts[1][1] = "Call" /\ lang = "DT"
    /\ chain[2].ast = << <<"Call", 1>>, <<"Jump", 2>>, <<"JumpIfZero", 1>> >>

\* C18: a legal Whitespace source, and likewise a legal Assembly source (and a
\* DT one), compiled, decompiled with the same syntax and compiled again
\* gives bytecode identical to that of the first compilation, and the second
\* compilation succeeds.
C18_CompileDecompileCompile ==
    (status = "syntax" /\ chain[1].kind = "text" /\ Len(chain) >= 4) =>
      /\ chain[4].err = "ok"
      /\ chain[4].val = chain[2].val

\* a Whitespace text that pushes +011 was compiled, decompiled into a different
\* text (the number is written 11) and compiled again
C18_Witness ==
    /\ status = "syntax" /\ chain[1].kind = "text" /\ Len(chain) = 4
    /\ lang = "Whitespace"
    /\ insts = << <<"StackPush", <<"Space", "Space", "Tab", "Tab">> >> >>
    /\ chain[2].ast = << <<"StackPush", 3>> >>
    /\ chain[3].val # chain[1].val
    /\ chain[4].val = chain[2].val

\* the stream is the whole encoding of its instructions
WellFormed == chain[1].val = assemble(insts)

\* the label operands of the stream are the ordinals of the labels in the order
\* of their first occurrence, as a compiler of section 4.2 writes them
CanonicalLabels == \A i \in 1..Len(insts) : FlowAt(i) => insts[i][2] = OrdinalOfLabel(i)

\* C19 as stated: for every well-formed bytecode stream, flow operands such as
\* Mark(15) and Mark(-1) included, decompiling it to Whitespace or Assembly,
\* compiling the text and decompiling again gives the text of the first
\* decompilation.
C19_DecompileCompileDecompile ==
    (/\ status = "syntax" /\ chain[1].kind = "bytecode" /\ Len(chain) >= 4
     /\ WellFormed /\ lang \in {"Whitespace", "Assembly"}) =>
      /\ chain[4].err = "ok"
      /\ chain[4].val = chain[2].val

\* C19 as the code has it: decompiling a well-formed stream, compiling the
\* text and decompiling again gives the text of the first decompilation when
\* the label operands of the stream are the ordinals 1, 2, ... of the labels
\* in the order of their first occurrence; the compilation in between always
\* succeeds, and it renumbers any other labels.
C19_CanonicalRoundTrip ==
    (status = "syntax" /\ chain[1].kind = "bytecode" /\ WellFormed /\ Len(chain) >= 3) =>
      /\ chain[3].err = "ok"
      /\ (Len(chain) >= 4 /\ CanonicalLabels) =>
            (chain[4].err = "ok" /\ chain[4].val = chain[2].val)
      /\ (Len(chain) >= 4 /\ chain[4].val = chain[2].val) => CanonicalLabels

\* the stream MARK 1, CALL 2, JUMP 1 was decompiled to Assembly, compiled and
\* decompiled again
C19_Witness ==
    /\ status = "syntax" /\ chain[1].kind = "bytecode" /\ WellFormed /\ Len(chain) = 4
    /\ lang = "Assembly"
    /\ insts = << <<"Mark", 1>>, <<"Call", 2>>, <<"Jump", 1>> >>
    /\ chain[2].val = <<77, 65, 82, 75, 32, 49, 10, 67, 65, 76, 76, 32, 50, 10,
                        74, 85, 77, 80, 32, 49, 10>>
    /\ chain[4].val = chain[2].val

\* the stream ends inside the operand of its last instruction: the opcode byte
\* is there and fewer than 8 bytes follow it
EndsInsideOperand ==
    /\ chain[1].kind = "bytecode"
    /\ insts # <<>>
    /\ Len(insts[Len(insts)]) = 2
    /\ Len(chain[1].val) < Len(assemble(insts))
    /\ Len(chain[1].val) > Len(assemble(insts)) - 9

\* C20: a bytecode stream that ends inside the 8-byte operand of an opcode
\* that has one is not decompiled with success, as a stream that ends on an
\* opcode byte is: the decompiler returns an error.
C20_TruncatedOperandIsError ==
    (status = "syntax" /\ Len(chain) >= 2 /\ EndsInsideOperand) => chain[2].err # "ok"

\* the instruction table of Whitespace (S = Space, T = Tab, N = LF): the
\* prefixes of the instructions without operand, of those with a number and
\* of those with a label
TokOf == ("S" :> "Space") @@ ("T" :> "Tab") @@ ("N" :> "LF")

Toks(p) == [i \in 1..Len(p) |-> TokOf[p[i]]]

PlainTable ==
    { <<"S", "N", "S">>, <<"S", "N", "T">>, <<"S", "N", "N">>,
      <<"T", "S", "S", "S">>, <<"T", "S", "S", "T">>, <<"T", "S", "S", "N">>,
      <<"T", "S", "T", "S">>, <<"T", "S", "T", "T">>,
      <<"T", "T", "S">>, <<"T", "T", "T">>,
      <<"N", "T", "N">>, <<"N", "N", "N">>,
      <<"T", "N", "S", "S">>, <<"T", "N", "S", "T">>,
      <<"T", "N", "T", "S">>, <<"T", "N", "T", "T">> }

NumberTable == { <<"S", "S">>, <<"S", "T", "S">>, <<"S", "T", "N">> }

LabelTable ==
    { <<"N", "S", "S">>, <<"N", "S", "T">>, <<"N", "S", "N">>,
      <<"N", "T", "S">>, <<"N", "T", "T">> }

\* the prefixes that are in no row of the table
BadPrefixes ==
    { <<"S", "T", "T">>, <<"T", "S", "N">>, <<"T", "S", "T", "N">>, <<"T", "T", "N">>,
      <<"T", "N", "N">>, <<"T", "N", "S", "N">>, <<"T", "N", "T", "N">>,
      <<"N", "N", "S">>, <<"N", "N", "T">> }

StartsWith(s, p) == Len(s) >= Len(p) /\ SubSeq(s, 1, Len(p)) = p

\* s ends with the first LF it holds from position from on
EndsAtFirstLF(s, from) ==
    /\ Len(s) >= from
    /\ s[Len(s)] = "LF"
    /\ \A j \in from..(Len(s) - 1) : s[j] # "LF"

\* s is one complete instruction: a prefix of the table, and for a number a
\* sign and bits up to LF, for a label bits up to LF
IsInstruction(s) ==
    \/ \E p \in PlainTable : s = Toks(p)
    \/ \E p \in NumberTable :
         /\ StartsWith(s, Toks(p))
         /\ Len(s) >= Len(p) + 2
         /\ s[Len(p) + 1] \in {"Space", "Tab"}
         /\ EndsAtFirstLF(s, Len(p) + 2)
    \/ \E p \in LabelTable : StartsWith(s, Toks(p)) /\ EndsAtFirstLF(s, Len(p) + 1)

RECURSIVE IsProgram(_)
\* s is a concatenation of complete instructions
IsProgram(s) ==
    \/ s = <<>>
    \/ \E k \in 1..Len(s) :
         IsInstruction(SubSeq(s, 1, k)) /\ IsProgram(SubSeq(s, k + 1, Len(s)))

\* the tokens of the text that was given to the compiler
SourceToks == ws_tokens(chain[1].val)

\* C21: the Whitespace parser returns Ok only when the tokens are a
\* concatenation of complete instructions: tokens that end inside a prefix or
\* inside an operand, or that hold a prefix that is in no row of the table,
\* give a syntax error; and the instructions emitted on an error are those of
\* the longest beginning of the tokens that parses, none after it.
C21_OkOnlyForCompleteInstructions ==
    (status = "syntax" /\ lang = "Whitespace" /\ chain[1].kind = "text" /\ Len(chain) >= 2) =>
      /\ chain[2].err = "ok" => IsProgram(SourceToks)
      /\ ~IsProgram(SourceToks) => chain[2].err = "InvalidInput"
      /\ chain[2].err # "ok" =>
           \E k \in 0..Len(SourceToks) :
              /\ Parser_parse(SubSeq(SourceToks, 1, k)) = [err |-> "ok", ast |-> chain[2].ast]
              /\ \A m \in (k + 1)..Len(SourceToks) :
                   Parser_parse(SubSeq(SourceToks, 1, m)).err # "ok"
      /\ \A p \in BadPrefixes : \A k \in 0..Len(SourceToks) :
           (IsProgram(SubSeq(SourceToks, 1, k))
              /\ StartsWith(SubSeq(SourceToks, k + 1, Len(SourceToks)), Toks(p)))
             => (chain[2].err = "InvalidInput" /\ Len(chain[2].ast) <= k)

\* the tokens S N S, S T T were parsed: Duplicate was emitted and the prefix
\* S T T is a syntax error
C21_Witness ==
    /\ status = "syntax" /\ lang = "Whitespace" /\ Len(chain) = 2
    /\ chain[1].val = <<32, 10, 32, 32, 9, 9>>
    /\ chain[2].err = "InvalidInput"
    /\ chain[2].ast = << <<"StackDuplicate">> >>

RECURSIVE MagnitudeOf(_)
\* the binary value of a sequence of bits written Space for 0 and Tab for 1;
\* 0 for the empty sequence
MagnitudeOf(bits) ==
    IF bits = <<>> THEN 0
    ELSE 2 * MagnitudeOf(SubSeq(bits, 1, Len(bits) - 1))
           + (IF bits[Len(bits)] = "Tab" THEN 1 ELSE 0)

\* the tokens are one instruction with a number: its prefix, a sign, bits, LF
OneNumberInstruction(p) ==
    /\ StartsWith(SourceToks, Toks(p))
    /\ Len(SourceToks) >= Len(p) + 2
    /\ SourceToks[Len(p) + 1] \in {"Space", "Tab"}
    /\ EndsAtFirstLF(SourceToks, Len(p) + 2)

\* the number the tokens after the prefix p denote, sign and magnitude
NumberWritten(p) ==
    LET m == MagnitudeOf(SubSeq(SourceToks, Len(p) + 2, Len(SourceToks) - 1))
    IN  IF SourceToks[Len(p) + 1] = "Space" THEN m ELSE 0 - m

\* C22: a Whitespace number is decoded sign-magnitude: the sign Space and the
\* bits b give the binary value of b, the sign Tab its negation, and a number
\* with no bit (the sign, then LF) is 0 and is not rejected.
C22_NumberDecoding ==
    (status = "syntax" /\ lang = "Whitespace" /\ chain[1].kind = "text" /\ Len(chain) >= 2) =>
      \A p \in NumberTable :
         OneNumberInstruction(p) =>
           /\ chain[2].err = "ok"
           /\ Len(chain[2].ast) = 1
           /\ chain[2].ast[1][2] = NumberWritten(p)

\* the tokens of the complete graphemes among the pieces of the text, in order
GraphemesOf(ps) ==
    LET whole == SelectSeq(ps, LAMBDA q : q[1] \in {"S", "T", "N"})
    IN  [i \in 1..Len(whole) |-> CASE whole[i][1] = "S" -> "Space"
                                   [] whole[i][1] = "T" -> "Tab"
                                   [] whole[i][1] = "N" -> "LF"]

\* C23: for any text the DT scanner emits exactly the complete S, T and N
\* graphemes of the text, in order: a character of none of them, and a
\* beginning of T that is not a whole T, gives no token and loses no S, T or
\* N that follows it.
\* (An error the scanner returns at the end of the text is not counted as a token.)
C23_ScanEmitsTheGraphemes ==
    status = "scanned" =>
      SelectSeq(out, LAMBDA t : t # "Err") = GraphemesOf(insts)

-----------------------------------------------------------------------------
(* Brainfuck: what the parser emits                                          *)

\* the command characters of a text, in order
Commands(text) == SelectSeq(text, LAMBDA c : c \in {62, 60, 43, 45, 44, 46, 91, 93})

\* the compilation of the text has returned
Compiled == Len(chain) = 2 /\ lang = "Brainfuck"

\* the instructions stated for the six commands that are no brackets
Stated ==
    (62 :> << <<"StackPush", -1>>, <<"StackDuplicate">>, <<"HeapRetrieve">>,
              <<"StackPush", 1>>, <<"Addition">>, <<"HeapStore">> >>) @@
    (60 :> << <<"StackPush", -1>>, <<"StackDuplicate">>, <<"HeapRetrieve">>,
              <<"StackPush", 1>>, <<"Subtraction">>, <<"StackDuplicate">>,
              <<"JumpIfNegative", -1>>, <<"HeapStore">> >>) @@
    (43 :> << <<"StackPush", -1>>, <<"HeapRetrieve">>, <<"StackDuplicate">>,
              <<"HeapRetrieve">>, <<"StackPush", 1>>, <<"Addition">>, <<"HeapStore">> >>) @@
    (45 :> << <<"StackPush", -1>>, <<"HeapRetrieve">>, <<"StackDuplicate">>,
              <<"HeapRetrieve">>, <<"StackPush", 1>>, <<"Subtraction">>, <<"HeapStore">> >>) @@
    (44 :> << <<"StackPush", -1>>, <<"HeapRetrieve">>, <<"HeapRetrieve">>,
              <<"GetCharactor">> >>) @@
    (46 :> << <<"StackPush", -1>>, <<"HeapRetrieve">>, <<"HeapRetrieve">>,
              <<"PutCharactor">> >>)

\* the number of instructions of one command: 5 for '[', 2 for ']'
StatedLen(c) == IF c \in DOMAIN Stated THEN Len(Stated[c]) ELSE IF c = 91 THEN 5 ELSE 2

RECURSIVE StatedSum(_, _, _)
\* the number of instructions of the commands lo .. hi
StatedSum(cs, lo, hi) ==
    IF lo > hi THEN 0
    ELSE IF lo = hi THEN StatedLen(cs[lo])
    ELSE StatedSum(cs, lo, (lo + hi) \div 2) + StatedSum(cs, (lo + hi) \div 2 + 1, hi)

\* the number of instructions of the commands before the k-th
StatedOffset(cs, k) == StatedSum(cs, 1, k - 1)

\* C24: when the parse succeeds, the instructions of every command that is no
\* bracket are the stated ones, at the place the commands before it leave
\* them, and the last two instructions are Exit and Mark(-1)
C24_MacrosAndTrailer ==
    (Compiled /\ chain[2].err = "ok") =>
      LET cs  == Commands(chain[1].val)
          ast == chain[2].ast
          n   == StatedOffset(cs, Len(cs) + 1)
      IN  /\ Len(ast) = n + 2
          /\ \A k \in 1..Len(cs) :
               cs[k] \in DOMAIN Stated =>
                 SubSeq(ast, StatedOffset(cs, k) + 1, StatedOffset(cs, k + 1)) = Stated[cs[k]]
          /\ SubSeq(ast, n + 1, n + 2) = << <<"Exit">>, <<"Mark", -1>> >>

\* "[+<" has been parsed: an open loop, an increment and a move to the left
C24_Witness ==
    /\ Compiled
    /\ chain[1].val = <<91, 43, 60>>
    /\ chain[2].err = "ok"
    /\ Len(chain[2].ast) = 22

-----------------------------------------------------------------------------
(* Brainfuck: the compiled commands on the machine                           *)

\* the data pointer: the cell -1 of the heap, 0 while it was never stored
DataPointer == IF BF_PTR_ADDR \in DOMAIN heap THEN heap[BF_PTR_ADDR] ELSE 0

\* step has just executed the record of opcode op, without error
Executed(op) == status = "running" /\ last # <<>> /\ last[2] = op

\* C25: when the GetCharactor of a ',' has been executed, the cell the data
\* pointer addresses holds the character that was read
C25_GetWritesTheCurrentCell ==
    (Compiled /\ Executed(CMD_GETC)) =>
      /\ DataPointer \in DOMAIN heap
      /\ heap[DataPointer] = BfInput[Len(BfInput) - Len(stdin)]

\* the text has no bracket: the only jumps of its program are those of '<'
NoLoops == \A k \in 1..Len(chain[1].val) : chain[1].val[k] \notin {91, 93}

\* a '<' met the data pointer 0: its JumpIfNegative has found the FAIL label
Underflowed == Compiled /\ NoLoops /\ BF_FAIL_MARKER \in DOMAIN index

\* C26: after a '<' at the data pointer 0 the pointer is not negative, the
\* label was found and the run does not end with an error
C26_UnderflowEndsCleanly ==
    Underflowed =>
      /\ DataPointer >= 0
      /\ status \in {"running", "halted"}

\* the k-th command is a ']' that closes no '[' before it
Unmatched(cs, k) ==
    /\ cs[k] = 93
    /\ Cardinality({ j \in 1..k : cs[j] = 93 }) > Cardinality({ j \in 1..k : cs[j] = 91 })

\* C27: when some ']' of the text closes no '[', the parse returns the syntax
\* error, and the instructions emitted are those of the commands before the
\* first such ']' and nothing more: nothing for it, nothing for what follows
\* it, no Exit and no Mark(-1) after them
C27_BrokenLoop ==
    Compiled =>
      LET cs == Commands(chain[1].val) IN
      \A k \in 1..Len(cs) :
        (Unmatched(cs, k) /\ \A j \in 1..(k - 1) : ~Unmatched(cs, j)) =>
          /\ chain[2].err = "InvalidInput"
          /\ Len(chain[2].ast) = StatedOffset(cs, k)
          /\ \A j \in 1..(k - 1) :
               cs[j] \in DOMAIN Stated =>
                 SubSeq(chain[2].ast, StatedOffset(cs, j) + 1, StatedOffset(cs, j + 1))
                   = Stated[cs[j]]
          /\ program = <<>> /\ status = "rejected"

\* "+]+" has been parsed: the error, and the seven instructions of the first '+'
C27_Witness ==
    /\ Compiled
    /\ chain[1].val = <<43, 93, 43>>
    /\ chain[2].err = "InvalidInput"
    /\ chain[2].ast = Stated[43]

\* the text is n times '+' and then '.', for some n in 0 .. 127
PlusThenPut ==
    LET text == chain[1].val IN
    /\ lang = "Brainfuck"
    /\ Len(text) \in 1..128
    /\ text[Len(text)] = 46
    /\ \A k \in 1..(Len(text) - 1) : text[k] = 43

\* C28: the text of n '+' and a '.' compiles, and its run halts with the one
\* character n written and the stack empty
C28_PlusPutWrites ==
    PlusThenPut ~>
      /\ Compiled
      /\ chain[2].err = "ok"
      /\ status = "halted"
      /\ stdout = << Len(chain[1].val) - 1 >>
      /\ stack = <<>>

\* the run of 65 '+' and a '.' has halted after writing 'A'
C28_Witness ==
    /\ Compiled
    /\ PlusThenPut
    /\ Len(chain[1].val) = 66
    /\ status = "halted"
    /\ stdout = <<65>>
    /\ stack = <<>>

-----------------------------------------------------------------------------
(* The label index and the forward scan                                      *)

\* the offset off is the one right after a record Mark(l) that was written,
\* which is 9 bytes long
AfterMarkOf(l, off) ==
    \E k \in 1..Len(insts) :
      /\ insts[k] = <<"Mark", l>>
      /\ EndOff(k) = off
      /\ EndOff(k - 1) = off - 9

\* C29: whatever a step does, every offset the index holds after it is the
\* offset right after a Mark record of that label, 9 bytes after its start,
\* whether the step executed the Mark or scanned over it; and the step that
\* executes a Mark stores the offset after that record under its label, leaves
\* the reader there, and changes nothing else
C29_MarkOffset ==
    [][ /\ Intact =>
              \A l \in DOMAIN index' : AfterMarkOf(l, index'[l])
        /\ (Stepping /\ insts[Cur][1] = "Mark") =>
              /\ index' = [l \in (DOMAIN index) \cup {insts[Cur][2]} |->
                             IF l = insts[Cur][2] THEN pos + 9 ELSE index[l]]
              /\ pos' = pos + 9
              /\ status' = "running"
              /\ UNCHANGED <<stack, heap, caller, stdin, stdout>> ]_vars

\* Call 1, Mark 1, Return: the Call has scanned to the Mark and inserted it,
\* the Return has come back, and the Mark has now been executed
C29_Witness ==
    /\ status = "running" /\ Intact
    /\ insts = << <<"Call", 1>>, <<"Mark", 1>>, <<"Return">> >>
    /\ last = <<9, CMD_MARK, 1>>
    /\ pos = 18
    /\ index = (1 :> 18)

\* a step is about to dispatch a Jump to a label the index does not hold
ScanStarts == Stepping /\ insts[Cur][1] = "Jump" /\ insts[Cur][2] \notin DOMAIN index

\* C30: the step of a Jump whose label is not in the index, whether its scan
\* finds the label or ends with UndefinedLabel, leaves the stack, the heap,
\* the call stack, stdin and stdout as they were, whatever records lie
\* between the Jump and the end of the scan; the reader has moved forward
C30_ScanExecutesNothing ==
    [][ ScanStarts =>
          /\ UNCHANGED <<stack, heap, caller, stdin, stdout>>
          /\ status' \in {"running", "UndefinedLabel"}
          /\ pos' > pos ]_vars

\* a Jump has just scanned over a Push record to its Mark: nothing was pushed
C30_Witness ==
    /\ status = "running" /\ Intact
    /\ insts = << <<"Jump", 1>>, <<"StackPush", 0>>, <<"Mark", 1>> >>
    /\ Len(last) = 3 /\ last[2] = CMD_JUMP
    /\ pos = Len(program)
    /\ stack = <<>>

-----------------------------------------------------------------------------
(* The conditional jumps                                                     *)

\* a step is about to dispatch a conditional jump with a value on the stack
Testing ==
    /\ Stepping
    /\ insts[Cur][1] \in {"JumpIfZero", "JumpIfNegative"}
    /\ stack # <<>>

\* the value on top of the stack fulfils the condition of the jump to dispatch
Fulfilled ==
    IF insts[Cur][1] = "JumpIfZero" THEN stack[Len(stack)] = 0 ELSE stack[Len(stack)] < 0

\* C31: a conditional jump that finds a value on the stack pops exactly that
\* value.  When the value does not fulfil the condition, the run goes on at
\* the next record, the index is left alone and there is no error, whether or
\* not the label is marked anywhere.  When it does, the reader goes where a
\* Jump to the label goes: to the offset the index holds, else right after
\* the first Mark of the label further on, else the step fails with
\* UndefinedLabel.
C31_ConditionalJump ==
    [][ Testing =>
          /\ stack' = SubSeq(stack, 1, Len(stack) - 1)
          /\ ~Fulfilled =>
                /\ pos' = EndOff(Cur)
                /\ index' = index
                /\ status' = "running"
          /\ Fulfilled =>
                LET id == insts[Cur][2] IN
                IF id \in DOMAIN index
                THEN pos' = index[id] /\ status' = "running"
                ELSE IF MarksOf(id, Cur, Len(insts)) # {}
                     THEN /\ pos' = EndOff(Min(MarksOf(id, Cur, Len(insts))))
                          /\ status' = "running"
                     ELSE status' = "UndefinedLabel" ]_vars

\* Push -1, JumpIfZero 1 with no Mark 1: the jump has popped the -1 and the
\* run goes on after it
C31_Witness ==
    /\ Intact
    /\ insts = << <<"StackPush", -1>>, <<"JumpIfZero", 1>> >>
    /\ last = <<9, CMD_JUMPZ, 1>>
    /\ status = "running"
    /\ stack = <<>>
    /\ pos = 18
    /\ index = EmptyMap

-----------------------------------------------------------------------------
(* Writer and reader on the records                                          *)

\* the offset off is where an instruction that was written begins, or the
\* end of the stream
Boundary(off) == \E i \in 0..Len(insts) : EndOff(i) = off

\* C32: the opcodes after which read_inst reads 8 more bytes are exactly the
\* first bytes of the instructions written with an operand, which are 9 bytes
\* long, the others being 1 byte long; the 24 opcodes are 24 different bytes;
\* and in a run on what the writer wrote, the offset the next read_inst
\* starts at, every offset the index holds and every offset the call stack
\* holds is the boundary of a record
C32_RecordFraming ==
    /\ { op \in 0..255 : ReadsOperand(op) } = { write_inst(<<k, 0>>)[1] : k \in OperandKinds }
    /\ \A k \in OperandKinds : \A n \in {-1, 0, 1} : Len(write_inst(<<k, n>>)) = 9
    /\ \A k \in PlainKinds : Len(write_inst(<<k>>)) = 1
    /\ Cardinality({ write_inst(<<k, 0>>)[1] : k \in OperandKinds }
                     \cup { write_inst(<<k>>)[1] : k \in PlainKinds }) = 24
    /\ Intact =>
          /\ status = "running" => Boundary(pos)
          /\ \A l \in DOMAIN index : Boundary(index[l])
          /\ \A i \in 1..Len(caller) : Boundary(caller[i])

\* PUSH 10 / CALL sub / ...: the Return of the subroutine has brought the
\* reader back to the offset the Call stored, where the Exit record begins
C32_Witness ==
    /\ Intact
    /\ insts = CallReturn
    /\ status = "running"
    /\ Len(last) = 3 /\ last[2] = CMD_RETURN
    /\ pos = 18
    /\ program[pos + 1] = CMD_EXIT

-----------------------------------------------------------------------------
(* Brainfuck: the labels of the loops                                        *)

\* the number of '[' among the commands 1 .. k
Opened(cs, k) == Cardinality({ j \in 1..k : cs[j] = 91 })

\* the number of ']' among the commands 1 .. k
Closed(cs, k) == Cardinality({ j \in 1..k : cs[j] = 93 })

\* the '[' that the ']' at k closes by proper nesting: the last '[' before k
\* with as many '[' as ']' between the two
OpenerOf(cs, k) ==
    CHOOSE i \in 1..(k - 1) :
      /\ cs[i] = 91
      /\ Opened(cs, k - 1) - Opened(cs, i) = Closed(cs, k - 1) - Closed(cs, i)
      /\ \A j \in (i + 1)..(k - 1) :
           cs[j] = 91 =>
             Opened(cs, k - 1) - Opened(cs, j) # Closed(cs, k - 1) - Closed(cs, j)

\* C33: in a successful parse, the l-th '[' emits Mark(2l - 1), Push(-1),
\* Retrieve, Retrieve, JumpIfZero(2l), and a ']' emits Jump(2l - 1), Mark(2l)
\* for the loop l it closes by proper nesting
C33_LoopLabels ==
    (Compiled /\ chain[2].err = "ok") =>
      LET cs  == Commands(chain[1].val)
          ast == chain[2].ast
      IN  \A k \in 1..Len(cs) :
            /\ cs[k] = 91 =>
                  SubSeq(ast, StatedOffset(cs, k) + 1, StatedOffset(cs, k) + 5)
                    = << <<"Mark", 2 * Opened(cs, k) - 1>>, <<"StackPush", -1>>,
                         <<"HeapRetrieve">>, <<"HeapRetrieve">>,
                         <<"JumpIfZero", 2 * Opened(cs, k)>> >>
            /\ cs[k] = 93 =>
                  SubSeq(ast, StatedOffset(cs, k) + 1, StatedOffset(cs, k) + 2)
                    = << <<"Jump", 2 * Opened(cs, OpenerOf(cs, k)) - 1>>,
                         <<"Mark", 2 * Opened(cs, OpenerOf(cs, k))>> >>

\* "[[]]" has been parsed: its Marks are 1, 3, 4, 2 in this order
C33_Witness ==
    /\ Compiled
    /\ chain[1].val = <<91, 91, 93, 93>>
    /\ chain[2].err = "ok"
    /\ SelectSeq(chain[2].ast, LAMBDA i : i[1] = "Mark")
         = << <<"Mark", 1>>, <<"Mark", 3>>, <<"Mark", 4>>, <<"Mark", 2>>, <<"Mark", -1>> >>

\* C34: in a successful parse, the label of every Jump, JumpIfZero and
\* JumpIfNegative emitted is the label of exactly one Mark emitted
C34_EveryTargetMarkedOnce ==
    (Compiled /\ chain[2].err = "ok") =>
      LET ast == chain[2].ast IN
      \A i \in 1..Len(ast) :
        ast[i][1] \in {"Jump", "JumpIfZero", "JumpIfNegative"} =>
          Cardinality({ j \in 1..Len(ast) : ast[j] = <<"Mark", ast[i][2]>> }) = 1

-----------------------------------------------------------------------------
(* The labels the reader has passed                                          *)

\* the Mark records that end at or before the offset off
MarksBefore(off) ==
    { k \in 1..Len(insts) : insts[k][1] = "Mark" /\ EndOff(k) <= off }

\* some Mark of the label was written, before or after the reader
Marked(id) == \E k \in 1..Len(insts) : insts[k] = <<"Mark", id>>

\* C35: in a run from offset 0 on what the writer wrote, no step removes a
\* label from the index, and after every step the index holds the label of
\* every Mark record that ends at or before the end of the record the step
\* read and at or before the offset the step left the reader at, so that
\* every Mark before the highest offset reached is in the index; and a Jump,
\* a Call or a taken conditional jump to a label that some Mark declares
\* does not fail with UndefinedLabel
C35_PassedMarksAreIndexed ==
    [][ Stepping =>
          /\ (DOMAIN index) \subseteq (DOMAIN index')
          /\ \A k \in MarksBefore(EndOff(Cur)) \cup MarksBefore(pos') :
                insts[k][2] \in DOMAIN index'
          /\ (Jumping /\ Marked(insts[Cur][2])) => status' # "UndefinedLabel" ]_vars

\* Mark 1, Jump 1: the Jump has found the label of the Mark behind it
C35_Witness ==
    /\ Intact
    /\ insts = << <<"Mark", 1>>, <<"Jump", 1>> >>
    /\ last = <<9, CMD_JUMP, 1>>
    /\ status = "running"
    /\ pos = 9
    /\ index = (1 :> 9)

-----------------------------------------------------------------------------
(* Brainfuck: the stack and the data pointer between the commands            *)

\* the number of bytes written for one command
GroupLen ==
    [c \in {62, 60, 43, 45, 44, 46, 91, 93} |->
       IF c \in DOMAIN Stated THEN Len(assemble(Stated[c]))
       ELSE IF c = 91
            THEN Len(assemble(<< <<"Mark", 1>>, <<"StackPush", -1>>, <<"HeapRetrieve">>,
                                 <<"HeapRetrieve">>, <<"JumpIfZero", 2>> >>))
            ELSE Len(assemble(<< <<"Jump", 1>>, <<"Mark", 2>> >>))]

GroupBytes(c) == GroupLen[c]

RECURSIVE BytesOf(_, _, _)
\* the number of bytes written for the commands lo .. hi
BytesOf(cs, lo, hi) ==
    CHOOSE res \in
      { IF b.lo > b.hi THEN 0
        ELSE IF b.lo = b.hi THEN GroupBytes(cs[b.lo])
        ELSE BytesOf(cs, b.lo, b.mid) + BytesOf(cs, b.mid + 1, b.hi) :
        b \in { [lo |-> lo, hi |-> hi, mid |-> (lo + hi) \div 2] } } : TRUE

\* the commands of the text compiled
Cs == Commands(chain[1].val)

\* the reader stands where the instructions of a command begin, or at the Exit
AtGroup ==
    \E cs \in { Cs } : \E k \in 1..(Len(cs) + 1) : BytesOf(cs, 1, k - 1) = pos

\* the command whose instructions the reader stands in, Len(Cs) + 1 for the
\* Exit and the Mark after the last command
GroupOf(off) ==
    CHOOSE k \in 1..(Len(Cs) + 1) :
      \E cs \in { Cs } :
        /\ BytesOf(cs, 1, k - 1) <= off
        /\ k <= Len(cs) => off < BytesOf(cs, 1, k)

\* C36: in the run of a compiled text the stack is empty wherever the
\* instructions of a command begin, at the Exit and when the run has halted,
\* and the run does not end with IllegalStackManipulation unless in PutChar
C36_StackNeutral ==
    (Compiled /\ chain[2].err = "ok") =>
      /\ (status = "running" /\ AtGroup) => stack = <<>>
      /\ status = "halted" => stack = <<>>
      /\ status = "IllegalStackManipulation" => last[2] = CMD_PUTC

\* ",." is run: the instructions of ',' have been executed and the reader
\* stands at those of '.', with nothing on the stack
C36_Witness ==
    /\ Compiled
    /\ chain[1].val = <<44, 46>>
    /\ status = "running"
    /\ Len(last) = 3 /\ last[2] = CMD_GETC
    /\ pos = GroupBytes(44)
    /\ stack = <<>>

\* the data-pointer cell of a heap: its value, or nothing when it is absent
PointerCell(h) == IF BF_PTR_ADDR \in DOMAIN h THEN <<h[BF_PTR_ADDR]>> ELSE <<>>

\* a step of the run of a compiled text keeps the data-pointer cell absent or
\* not negative, and changes it only within the group of a command of cmds
PointerStep(cmds) ==
    (Compiled /\ chain[2].err = "ok" /\ status = "running") =>
      /\ BF_PTR_ADDR \in DOMAIN heap' => heap'[BF_PTR_ADDR] >= 0
      /\ PointerCell(heap') # PointerCell(heap) =>
            /\ GroupOf(pos) <= Len(Cs)
            /\ Cs[GroupOf(pos)] \in cmds

\* C37: in the run of a compiled text the data-pointer cell heap[-1] is absent
\* or not negative, and only the instructions of '>' and '<' change it
C37_PointerOnlyMoved == [][PointerStep({62, 60})]_vars

-----------------------------------------------------------------------------
(* Brainfuck: the loop that counts a cell down                               *)

\* the text is some '+' and then "[-]"
PlusThenLoop ==
    LET text == chain[1].val IN
    /\ lang = "Brainfuck"
    /\ Len(text) >= 3
    /\ SubSeq(text, Len(text) - 2, Len(text)) = <<91, 45, 93>>
    /\ \A k \in 1..(Len(text) - 3) : text[k] = 43

\* the value of tape cell 0
Cell0 == IF 0 \in DOMAIN heap THEN heap[0] ELSE 0

\* a step of the run of n '+' and "[-]": the loop is entered the first time
\* with cell 0 = n; its JumpIfZero goes past the Mark after the loop when
\* cell 0 is 0 and into the body otherwise; the HeapStore of the body takes
\* one from cell 0 and no other step from the loop on changes it
LoopPass ==
    (Compiled /\ PlusThenLoop /\ chain[2].err = "ok" /\ status = "running") =>
      LET n    == Len(chain[1].val) - 3
          loop == BytesOf(Cs, 1, n)
          body == BytesOf(Cs, 1, n + 1)
          jz   == body - Len(write_inst(<<"JumpIfZero", 2>>))
          st   == body + GroupLen[45] - 1
          exit == BytesOf(Cs, 1, n + 3)
      IN  /\ (pos = loop /\ index = EmptyMap) => Cell0 = n
          /\ pos = jz =>
                /\ status' = "running"
                /\ pos' = IF Cell0 = 0 THEN exit ELSE body
          /\ pos = body => Cell0 \in 1..n
          /\ pos = st => Cell0' = Cell0 - 1
          /\ (pos >= loop /\ pos # st) => Cell0' = Cell0
          /\ pos = exit => status' = "halted" /\ Cell0 = 0

\* C38: the run of n '+' and "[-]" halts by Exit with tape cell 0 = 0; the
\* body is entered once for each value of cell 0 from n down to 1, and with
\* n = 0 the JumpIfZero goes forward past the Mark that ends the loop
C38_WhileLoop ==
    /\ PlusThenLoop ~>
          /\ Compiled
          /\ chain[2].err = "ok"
          /\ status = "halted"
          /\ Cell0 = 0
          /\ stack = <<>>
    /\ [][LoopPass]_vars

\* the run of "+++[-]" has halted with cell 0 counted down to 0
C38_Witness ==
    /\ Compiled
    /\ chain[1].val = PlusLoop(3)
    /\ status = "halted"
    /\ 0 \in DOMAIN heap /\ heap[0] = 0
    /\ DOMAIN index = {1, 2}

=============================================================================
